---------------------------- MODULE Spec2Model ----------------------------
(***************************************************************************)
(* Verification model of the IC'ALPS migration pipeline                    *)
(* (Wkayaobama/icalps_pipeline): deal stage mapping, multi-site company    *)
(* aggregation, association resolution, the pipeline run, the computed     *)
(* fields and the business rules on companies and persons.                 *)
(*                                                                         *)
(* Text values.  A Python str is modelled as a sequence of atoms.  An atom *)
(* is a run of characters that the code never looks inside: a word or a    *)
(* word fragment in one letter case, a single blank " ", a single "," and  *)
(* so on.  str.strip, str.lower, str.split, str.join and the substring     *)
(* test `key in text` are computed on these sequences the way Python       *)
(* computes them on characters.  A pandas missing cell (NaN) and Python's  *)
(* None are two reserved one-atom values that no real text equals.         *)
(***************************************************************************)
EXTENDS Integers, Sequences, FiniteSets, TLC

VARIABLES
    opportunity,   \* the opportunities_df row being processed
    hubspot,       \* columns added by PipelineMapper.apply_pipeline_mapping
    deal,          \* the row of transformed_df built by transform_deals_to_hubspot_format
    pcStage,       \* position of the opportunity run
    companies_df,          \* the companies dataset given to SiteAggregationProcessor
    contacts_df,           \* the contacts dataset given to SiteAggregationProcessor
    site_aggregation_df,   \* the result of the latest process_site_aggregation call
    first_aggregation_df,  \* the result the caller kept from the first call
    site_runs,             \* calls made on the shared site_aggregation_processor
    processor,             \* the attributes of the shared SiteAggregationProcessor
    communication,         \* the communications_df row being resolved
    lookups,               \* ids present in the deals, companies and contacts datasets
    comm_associations,     \* row built by create_communication_associations
    comm_result,           \* row built by process_communications_with_associations
    social_network,        \* the social networks row being processed
    social_result,         \* row built by process_social_networks_with_associations
    run_faults,            \* what goes wrong outside the datasets during the run
    bronze_data,           \* names of the datasets the bronze extraction returned with rows
    processed_data,        \* the datasets test_duckdb_processing hands to the stages
    run,                   \* the locals and the position of run_enhanced_pipeline
    opportunities_df,      \* the opportunity row given to the computed-field functions
    computed_df,           \* the frame the computed-field functions hand back
    applied,               \* the computed-field functions called so far, in call order
    calculator,            \* the columns ComputedColumnsCalculator.calculate_all adds
    input_frames,          \* the company and person frames the caller hands to the rules engine
    enhanced_data,         \* the frames the rules engine handed back
    rules_pc               \* position of test_business_rules

stageVars == <<opportunity, hubspot, deal, pcStage>>

siteVars ==
    <<companies_df, contacts_df, site_aggregation_df, first_aggregation_df,
      site_runs, processor>>

assocVars == <<communication, lookups, comm_associations, comm_result>>

socialVars == <<social_network, social_result>>

runVars == <<run_faults, bronze_data, processed_data, run>>

computedVars == <<opportunities_df, computed_df, applied, calculator>>

rulesVars == <<input_frames, enhanced_data, rules_pc>>

vars == <<stageVars, siteVars, assocVars, socialVars, runVars, computedVars, rulesVars>>

----------------------------------------------------------------------------
(* Bounds of the model *)

\* largest number of blanks put before and after an input text
MaxPad == 1

\* largest number of rows of the companies dataset
MaxCompanies == 4

\* largest id of a deal, company or contact present in the datasets
MaxEntityId == 2

\* largest number of atoms of a social network link
MaxLinkLen == 3

----------------------------------------------------------------------------
(* Python / pandas primitives on text *)

NaN == <<"<NaN>">>
None == <<"<None>">>

isna(x) == x = NaN \/ x = None

\* str(x): a missing cell prints as the text nan, None as the text None
PyStr(x) ==
    IF x = NaN THEN <<"nan">> ELSE IF x = None THEN <<"None">> ELSE x

IsSpace(a) == a = " "

RECURSIVE lstrip(_)
lstrip(t) ==
    IF t # <<>> /\ IsSpace(Head(t)) THEN lstrip(Tail(t)) ELSE t

RECURSIVE rstrip(_)
rstrip(t) ==
    IF t # <<>> /\ IsSpace(t[Len(t)]) THEN rstrip(SubSeq(t, 1, Len(t) - 1)) ELSE t

strip(t) == rstrip(lstrip(t))

\* the atoms that contain upper-case letters, with their lower-case form
LowerPairs ==
    { <<"Identification", "identification">>, <<"Qualified", "qualified">>,
      <<"QUALIFIED", "qualified">>, <<"Qualifiée", "qualifiée">>,
      <<"Evaluation", "evaluation">>, <<"Construction", "construction">>,
      <<"Negotiating", "negotiating">>, <<"Négociation", "négociation">>,
      <<"Negociation", "negociation">>, <<"Pre", "pre">>, <<"Unknown", "unknown">>,
      <<"Won", "won">>, <<"Lost", "lost">>, <<"NoGo", "nogo">>,
      <<"Abandonne", "abandonne">>, <<"Abandonnee", "abandonnee">>,
      <<"Sleap", "sleap">>, <<"In", "in">>, <<"Progress", "progress">>,
      <<"NULL", "null">>, <<"None", "none">>, <<"NaN", "nan">>,
      <<"Pending", "pending">>, <<"Preetude", "preetude">>, <<"FTK", "ftk">>,
      <<"Other", "other">>,
      <<"Acme", "acme">>, <<"Beta", "beta">>, <<"Grenoble", "grenoble">>,
      <<"Paris", "paris">>, <<"PARIS", "paris">>, <<"Corp", "corp">>,
      <<"Sa", "sa">>, <<"Labs", "labs">>, <<"HQ", "hq">>,
      <<"A.com", "a.com">>, <<"WWW.", "www.">>, <<"HTTP://", "http://">>,
      <<"FR", "fr">>,
      <<"Linked", "linked">>,
      <<"ACME", "acme">>, <<"Ann", "ann">>, <<"LEE", "lee">>, <<"Lee", "lee">>,
      <<"A", "a">> }

lowerAtom(a) ==
    IF \E p \in LowerPairs : p[1] = a
    THEN (CHOOSE p \in LowerPairs : p[1] = a)[2]
    ELSE a

lower(t) == [i \in 1..Len(t) |-> lowerAtom(t[i])]

\* Python's `key in text` on str: key occurs as a contiguous run of text
contains(text, key) ==
    \E i \in 0..(Len(text) - Len(key)) : SubSeq(text, i + 1, i + Len(key)) = key

----------------------------------------------------------------------------
(* PipelineMapper (src/business_logic/pipeline_mapper.py) *)

STUDIES == "Studies Pipeline"
SALES == "Sales Pipeline"

\* PipelineMapper.pipeline_rules, with the default of determine_pipeline
determine_pipeline(oppo_type) ==
    IF oppo_type = <<"Preetude">> THEN STUDIES
    ELSE IF oppo_type = <<"FTK">> THEN SALES
    ELSE IF oppo_type = None \/ oppo_type = <<>> \/ oppo_type = <<"NULL">> THEN SALES
    ELSE SALES

\* PipelineMapper.final_stage_mapping; "" stands for the None of Sleap
final_stage_mapping ==
    << <<<<"Won">>, "closedwon">>, <<<<"Lost">>, "closedlost">>,
       <<<<"NoGo">>, "closedlost">>, <<<<"Abandonne">>, "closedlost">>,
       <<<<"Sleap">>, "">> >>

studies_stage_mapping ==
    << <<<<"Identification">>, "01-Identification">>,
       <<<<"Qualified">>, "02-Qualifiée">>,
       <<<<"Qualifiée">>, "02-Qualifiée">>,
       <<<<"Evaluation", " ", "technique">>, "03-Evaluation technique">>,
       <<<<"Construction", " ", "propositions">>, "04-Construction propositions">>,
       <<<<"Negotiating">>, "05-Négociation">>,
       <<<<"Négociation">>, "05-Négociation">> >>

\* sales_stage_mapping as it would be with the Studies member on the
\* Qualifiée row
sales_stage_mapping_overlapping ==
    << <<<<"Identification">>, "Identified">>,
       <<<<"Qualified">>, "Qualified">>,
       <<<<"Qualifiée">>, "02-Qualifiée">>,
       <<<<"Evaluation", " ", "technique">>, "Design in">>,
       <<<<"Construction", " ", "propositions">>, "Negotiate">>,
       <<<<"Negotiating">>, "Design Win">>,
       <<<<"Négociation">>, "Design Win">> >>

sales_stage_mapping ==
    << <<<<"Identification">>, "Identified">>,
       <<<<"Qualified">>, "Qualified">>,
       <<<<"Qualifiée">>, "Qualified">>,
       <<<<"Evaluation", " ", "technique">>, "Design in">>,
       <<<<"Construction", " ", "propositions">>, "Negotiate">>,
       <<<<"Negotiating">>, "Design Win">>,
       <<<<"Négociation">>, "Design Win">> >>

\* dict membership and dict.get on a table of <<key, value>> pairs
HasKey(table, key) == \E i \in 1..Len(table) : table[i][1] = key
Get(table, key, default) ==
    IF HasKey(table, key)
    THEN table[CHOOSE i \in 1..Len(table) : table[i][1] = key][2]
    ELSE default

map_deal_stage(oppo_status, oppo_stage, oppo_type) ==
    LET pipeline == determine_pipeline(oppo_type)
        final_stage == Get(final_stage_mapping, oppo_status, "")
        stage_mapping == IF pipeline = STUDIES THEN studies_stage_mapping
                         ELSE sales_stage_mapping
        mapped_stage == Get(stage_mapping, oppo_stage, "")
        default_stage == IF pipeline = STUDIES THEN "01-Identification"
                         ELSE "Identified"
    IN  IF HasKey(final_stage_mapping, oppo_status) /\ final_stage # ""
        THEN <<pipeline, final_stage>>
        ELSE IF mapped_stage # "" THEN <<pipeline, mapped_stage>>
        ELSE <<pipeline, default_stage>>

Min(a, b) == IF a < b THEN a ELSE b
Max(a, b) == IF a > b THEN a ELSE b

\* The confidence is a float in the code; the model counts it in tenths
\* (10 = 1.0, 2 = 0.2, 1 = 0.1).
_calculate_mapping_confidence_uncapped(status, stage, oppo_type) ==
    LET c1 == IF status = <<>> THEN 10 - 2 ELSE 10
        c2 == IF stage = <<>> THEN c1 - 2 ELSE c1
        c3 == IF oppo_type = <<>> THEN c2 - 1 ELSE c2
        c4 == IF status \in {<<"Won">>, <<"Lost">>} THEN c3 + 2 ELSE c3
    IN  Max(1, c4)

\* _calculate_mapping_confidence as it would be with the boost of lines
\* 175-176 applied before the deductions of lines 167-172
_calculate_mapping_confidence_boost_first(status, stage, oppo_type) ==
    LET c0 == IF status \in {<<"Won">>, <<"Lost">>} THEN Min(10, 10 + 2) ELSE 10
        c1 == IF status = <<>> THEN c0 - 2 ELSE c0
        c2 == IF stage = <<>> THEN c1 - 2 ELSE c1
        c3 == IF oppo_type = <<>> THEN c2 - 1 ELSE c2
    IN  Max(1, c3)

_calculate_mapping_confidence(status, stage, oppo_type) ==
    LET c1 == IF status = <<>> THEN 10 - 2 ELSE 10
        c2 == IF stage = <<>> THEN c1 - 2 ELSE c1
        c3 == IF oppo_type = <<>> THEN c2 - 1 ELSE c2
        c4 == IF status \in {<<"Won">>, <<"Lost">>} THEN Min(10, c3 + 2) ELSE c3
    IN  Max(1, c4)

\* the per-row body of apply_pipeline_mapping: strip, collapse the
\* missing-value markers, map, score
NullMarkers == {<<"nan">>, <<"None">>, <<"NULL">>}

CleanCell(x) ==
    LET s == strip(PyStr(x)) IN IF s \in NullMarkers THEN <<>> ELSE s

apply_pipeline_mapping(row) ==
    LET oppo_status == CleanCell(row.Oppo_Status)
        oppo_stage == CleanCell(row.Oppo_Stage)
        oppo_type == CleanCell(row.Oppo_Type)
        m == map_deal_stage(oppo_status, oppo_stage, oppo_type)
    IN  [ done |-> TRUE,
          hubspot_pipeline |-> m[1],
          hubspot_stage |-> m[2],
          mapping_confidence |->
              _calculate_mapping_confidence(oppo_status, oppo_stage, oppo_type) ]


\* dict.values() as a set
Values(table) == {table[i][2] : i \in 1..Len(table)}

\* PipelineMapper.validate_mapping_rules (lines 197-212)
validate_mapping_rules ==
    LET all_studies_stages == Values(studies_stage_mapping)
        all_sales_stages == Values(sales_stage_mapping)
    IN  [ pipeline_rules_valid |-> TRUE,
          final_stage_mapping_valid |-> Len(final_stage_mapping) > 0,
          studies_mapping_valid |-> Len(studies_stage_mapping) > 0,
          sales_mapping_valid |-> Len(sales_stage_mapping) > 0,
          no_stage_overlap |-> all_studies_stages \cap all_sales_stages = {} ]

----------------------------------------------------------------------------
(* BusinessTransformationProcessor                                         *)
(* (src/processors/business_transformation_processor.py)                   *)

\* _determine_pipeline as it would be without the strip of line 95
_determine_pipeline_nostrip(oppo_type) ==
    IF isna(oppo_type) \/ oppo_type = <<>> THEN SALES
    ELSE IF PyStr(oppo_type) = <<"Preetude">> THEN STUDIES
    ELSE SALES

_determine_pipeline(oppo_type) ==
    IF isna(oppo_type) \/ oppo_type = <<>> THEN SALES
    ELSE LET oppo_type_clean == strip(PyStr(oppo_type))
         IN  IF oppo_type_clean = <<"Preetude">> THEN STUDIES ELSE SALES

\* An Oppo_Certainty cell: missing ("na"), a number ("num"), a text that
\* float() parses ("numstr") or a text on which float() raises ("badstr").
\* Lines 113-116: float(x) if pd.notna(x) else 0, and 0 on any exception.
ToFloat(cell) ==
    CASE cell.k = "na" -> 0
      [] cell.k = "num" -> cell.v
      [] cell.k = "numstr" -> cell.v
      [] OTHER -> 0

StageResult(stage, status, note) ==
    [hubspot_stage |-> stage, deal_status |-> status, transformation_notes |-> note]

studies_active_mapping ==
    << <<<<"identification">>, "01-Identification">>,
       <<<<"qualified">>, "02-Qualifiée">>,
       <<<<"evaluation", " ", "technique">>, "03-Evaluation technique">>,
       <<<<"construction", " ", "propositions">>, "04-Construction propositions">>,
       <<<<"construction", " ", "offre">>, "04-Construction propositions">>,
       <<<<"negotiating">>, "05-Négociation">>,
       <<<<"negociation">>, "05-Négociation">> >>

sales_active_mapping ==
    << <<<<"identification">>, "Identified">>,
       <<<<"qualified">>, "Qualified">>,
       <<<<"evaluation", " ", "technique">>, "Design In">>,
       <<<<"construction", " ", "propositions">>, "Negotiate">>,
       <<<<"construction", " ", "offre">>, "Negotiate">>,
       <<<<"negotiating">>, "Design Win">>,
       <<<<"negociation">>, "Design Win">> >>

\* lines 170-173: the first key, in insertion order, found inside the text
FirstMatch(table, text) ==
    LET hits == {i \in 1..Len(table) : contains(text, table[i][1])}
    IN  IF hits = {} THEN 0 ELSE CHOOSE i \in hits : \A j \in hits : i <= j

\* _map_active_stage as it would be without the lower() of line 147
_map_active_stage_cased(oppo_stage, oppo_type) ==
    LET stage_clean == strip(oppo_stage)
        studies == oppo_type = <<"Preetude">>
        table == IF studies THEN studies_active_mapping ELSE sales_active_mapping
        note == IF studies THEN "Mapped to Studies Pipeline"
                ELSE "Mapped to Sales Pipeline"
        hit == FirstMatch(table, stage_clean)
    IN  IF hit # 0 THEN StageResult(table[hit][2], "In Progress", note)
        ELSE IF studies
        THEN StageResult("01-Identification", "In Progress", "Default Studies Pipeline stage")
        ELSE StageResult("Identified", "In Progress", "Default Sales Pipeline stage")

_map_active_stage(oppo_stage, oppo_type) ==
    LET stage_clean == strip(lower(oppo_stage))
        studies == oppo_type = <<"Preetude">>
        table == IF studies THEN studies_active_mapping ELSE sales_active_mapping
        note == IF studies THEN "Mapped to Studies Pipeline"
                ELSE "Mapped to Sales Pipeline"
        hit == FirstMatch(table, stage_clean)
    IN  IF hit # 0 THEN StageResult(table[hit][2], "In Progress", note)
        ELSE IF studies
        THEN StageResult("01-Identification", "In Progress", "Default Studies Pipeline stage")
        ELSE StageResult("Identified", "In Progress", "Default Sales Pipeline stage")

\* _transform_deal_stage as it would be with Sleap kept in its current
\* active stage (the reading of PipelineMapper.final_stage_mapping)
_transform_deal_stage_keep_sleap(row) ==
    LET oppo_status == strip(PyStr(row.Oppo_Status))
        oppo_stage == strip(PyStr(row.Oppo_Stage))
        certainty == ToFloat(row.Oppo_Certainty)
        oppo_type == strip(PyStr(row.Oppo_Type))
    IN  IF oppo_status \in {<<"Abandonne">>, <<"Abandonnee">>} /\ certainty <= 10
        THEN StageResult("Closed Dead", "Lost",
                         "Moved to Closed Dead (abandoned + low certainty)")
        ELSE IF oppo_status = <<"Won">>
        THEN StageResult("Closed Won", "Won", "Deal successfully closed")
        ELSE IF oppo_status \in {<<"Lost">>, <<"NoGo">>}
        THEN StageResult("Closed Lost", "Lost", "Deal closed as lost")
        ELSE IF oppo_status \in {<<"In", " ", "Progress">>, <<>>, <<"Sleap">>}
        THEN _map_active_stage(oppo_stage, oppo_type)
        ELSE StageResult("Identified", "In Progress", "Default mapping applied")

\* _transform_deal_stage as it would be with `certainty < 10` on line 119
_transform_deal_stage_strict(row) ==
    LET oppo_status == strip(PyStr(row.Oppo_Status))
        oppo_stage == strip(PyStr(row.Oppo_Stage))
        certainty == ToFloat(row.Oppo_Certainty)
        oppo_type == strip(PyStr(row.Oppo_Type))
    IN  IF oppo_status \in {<<"Abandonne">>, <<"Abandonnee">>} /\ certainty < 10
        THEN StageResult("Closed Dead", "Lost",
                         "Moved to Closed Dead (abandoned + low certainty)")
        ELSE IF oppo_status = <<"Won">>
        THEN StageResult("Closed Won", "Won", "Deal successfully closed")
        ELSE IF oppo_status \in {<<"Lost">>, <<"NoGo">>}
        THEN StageResult("Closed Lost", "Lost", "Deal closed as lost")
        ELSE IF oppo_status = <<"Sleap">>
        THEN IF oppo_type = <<"Preetude">>
             THEN StageResult("05-Négociation", "In Progress", "Deal on hold (Sleap)")
             ELSE StageResult("Design Win", "In Progress", "Deal on hold (Sleap)")
        ELSE IF oppo_status = <<"In", " ", "Progress">> \/ oppo_status = <<>>
        THEN _map_active_stage(oppo_stage, oppo_type)
        ELSE StageResult("Identified", "In Progress", "Default mapping applied")

_transform_deal_stage(row) ==
    LET oppo_status == strip(PyStr(row.Oppo_Status))
        oppo_stage == strip(PyStr(row.Oppo_Stage))
        certainty == ToFloat(row.Oppo_Certainty)
        oppo_type == strip(PyStr(row.Oppo_Type))
    IN  IF oppo_status \in {<<"Abandonne">>, <<"Abandonnee">>} /\ certainty <= 10
        THEN StageResult("Closed Dead", "Lost",
                         "Moved to Closed Dead (abandoned + low certainty)")
        ELSE IF oppo_status = <<"Won">>
        THEN StageResult("Closed Won", "Won", "Deal successfully closed")
        ELSE IF oppo_status \in {<<"Lost">>, <<"NoGo">>}
        THEN StageResult("Closed Lost", "Lost", "Deal closed as lost")
        ELSE IF oppo_status = <<"Sleap">>
        THEN IF oppo_type = <<"Preetude">>
             THEN StageResult("05-Négociation", "In Progress", "Deal on hold (Sleap)")
             ELSE StageResult("Design Win", "In Progress", "Deal on hold (Sleap)")
        ELSE IF oppo_status = <<"In", " ", "Progress">> \/ oppo_status = <<>>
        THEN _map_active_stage(oppo_stage, oppo_type)
        ELSE StageResult("Identified", "In Progress", "Default mapping applied")

fillna(x, value) == IF isna(x) THEN value ELSE x

\* the per-row content of transform_deals_to_hubspot_format (lines 42-78)
transform_deals_to_hubspot_format(row) ==
    LET deal_stages == _transform_deal_stage(row)
    IN  [ done |-> TRUE,
          pipeline |-> _determine_pipeline(row.Oppo_Type),
          deal_stage |-> deal_stages.hubspot_stage,
          deal_status |-> deal_stages.deal_status,
          transformation_notes |-> deal_stages.transformation_notes,
          deal_type |-> fillna(row.Oppo_Type, <<>>),
          deal_category |-> IF row.Oppo_Type = <<"Preetude">> THEN "Study"
                            ELSE "Opportunity",
          original_stage |-> fillna(row.Oppo_Stage, <<>>),
          original_status |-> fillna(row.Oppo_Status, <<>>) ]

----------------------------------------------------------------------------
(* The opportunity rows the model feeds to the two mappers *)

RECURSIVE Blanks(_)
Blanks(n) == IF n = 0 THEN <<>> ELSE <<" ">> \o Blanks(n - 1)

\* a text cell with l blanks before and r blanks after; a missing cell stays missing
Pad(x, l, r) == IF isna(x) THEN x ELSE Blanks(l) \o x \o Blanks(r)

StatusCells ==
    { <<>>, <<"Won">>, <<"won">>, <<"Lost">>, <<"NoGo">>, <<"Abandonne">>,
      <<"Abandonnee">>, <<"Sleap">>, <<"In", " ", "Progress">>, <<"NULL">>,
      <<"Pending">>, NaN }

StageCells ==
    { <<>>, <<"Identification">>, <<"Qualified">>, <<"qualified">>, <<"QUALIFIED">>,
      <<"Qualifiée">>, <<"Evaluation", " ", "technique">>,
      <<"Construction", " ", "offre">>, <<"Negotiating">>, <<"Négociation">>,
      <<"Pre", "qualified">>, <<"Qualified", " ", "Identification">>,
      <<"Unknown">>, NaN }

TypeCells ==
    { <<>>, <<"Preetude">>, <<"preetude">>, <<"FTK">>, <<"NULL">>, NaN }

CertaintyCells ==
    { [k |-> "na", v |-> 0], [k |-> "badstr", v |-> 0], [k |-> "numstr", v |-> 5],
      [k |-> "num", v |-> 0], [k |-> "num", v |-> 5], [k |-> "num", v |-> 10],
      [k |-> "num", v |-> 11], [k |-> "num", v |-> 50] }

Pads == 0..MaxPad

OpportunityRows ==
    { [ Oppo_Status |-> Pad(s, l, r), Oppo_Stage |-> Pad(g, l, r),
        Oppo_Type |-> Pad(t, l, r), Oppo_Certainty |-> c ] :
      s \in StatusCells, g \in StageCells, t \in TypeCells, c \in CertaintyCells,
      l \in Pads, r \in Pads }

NoHubspot ==
    [done |-> FALSE, hubspot_pipeline |-> "", hubspot_stage |-> "", mapping_confidence |-> 10]

NoDeal ==
    [ done |-> FALSE, pipeline |-> "", deal_stage |-> "", deal_status |-> "",
      transformation_notes |-> "", deal_type |-> <<>>, deal_category |-> "",
      original_stage |-> <<>>, original_status |-> <<>> ]

----------------------------------------------------------------------------
(* Properties of the stage mapping *)

Pipelines == {STUDIES, SALES}

ClosedStages == {"Closed Won", "Closed Lost", "Closed Dead"}

StudiesLevels ==
    << "01-Identification", "02-Qualifiée", "03-Evaluation technique",
       "04-Construction propositions", "05-Négociation" >>

SalesLevels == << "Identified", "Qualified", "Design In", "Negotiate", "Design Win" >>

Range(f) == {f[i] : i \in DOMAIN f}

DealStages == ClosedStages \cup Range(StudiesLevels) \cup Range(SalesLevels)

HubspotStages ==
    {"closedwon", "closedlost"} \cup {studies_stage_mapping[i][2] : i \in 1..7}
        \cup {sales_stage_mapping[i][2] : i \in 1..7}

\* the status, stage and type texts of the row as the code reads them
StatusOf(row) == strip(PyStr(row.Oppo_Status))
StageOf(row) == strip(PyStr(row.Oppo_Stage))
TypeOf(row) == strip(PyStr(row.Oppo_Type))

\* the certainty the claims speak of: a missing or non-numeric one counts as 0
CertaintyOrZero(row) ==
    IF row.Oppo_Certainty.k \in {"num", "numstr"} THEN row.Oppo_Certainty.v ELSE 0

\* C1: for every status, stage and deal-type text, empty, missing and unknown
\* ones included, both mappers return a pipeline and a stage, and the mapping
\* confidence lies within [0.1, 1.0] (1..10 tenths).
Thm_C1_MappingTotal ==
    /\ hubspot.done =>
          /\ hubspot.hubspot_pipeline \in Pipelines
          /\ hubspot.hubspot_stage \in HubspotStages
          /\ hubspot.mapping_confidence >= 1
          /\ hubspot.mapping_confidence <= 10
    /\ deal.done =>
          /\ deal.pipeline \in Pipelines
          /\ deal.deal_stage \in DealStages
          /\ deal.deal_status \in {"Won", "Lost", "In Progress"}

Wit_C1_MissingEverything ==
    /\ deal.done
    /\ opportunity.Oppo_Status = NaN
    /\ opportunity.Oppo_Stage = NaN
    /\ opportunity.Oppo_Type = NaN
    /\ hubspot.mapping_confidence = 5
    /\ hubspot.hubspot_stage = "Identified"

Cex_C3_AbandonedFallsThroughToActive ==
    ( /\ deal.done
      /\ StatusOf(opportunity) \in {<<"Abandonne">>, <<"Abandonnee">>}
      /\ CertaintyOrZero(opportunity) > 10 ) =>
        /\ deal.deal_stage =
              _transform_deal_stage([opportunity EXCEPT !.Oppo_Status = <<>>]).hubspot_stage
        /\ deal.deal_stage \notin ClosedStages

Thm_C5_PipelineByType ==
    /\ deal.done =>
          deal.pipeline =
              (IF TypeOf(opportunity) = <<"Preetude">> THEN STUDIES ELSE SALES)
    /\ hubspot.done =>
          hubspot.hubspot_pipeline =
              (IF TypeOf(opportunity) = <<"Preetude">> THEN STUDIES ELSE SALES)

Wit_C5_PaddedPreetude ==
    /\ deal.done
    /\ opportunity.Oppo_Type = <<" ", "Preetude", " ">>
    /\ StatusOf(opportunity) = <<"Won">>
    /\ deal.pipeline = STUDIES
    /\ hubspot.hubspot_pipeline = STUDIES

\* the texts that differ from the row's stage text in letter case only
CaseVariants(row) ==
    { g \in {Pad(c, l, r) : c \in StageCells, l \in Pads, r \in Pads} :
        /\ PyStr(g) # PyStr(row.Oppo_Stage)
        /\ Len(PyStr(g)) = Len(PyStr(row.Oppo_Stage))
        /\ lower(PyStr(g)) = lower(PyStr(row.Oppo_Stage)) }

ActiveKeys == {studies_active_mapping[i][1] : i \in 1..7}

MatchesNoLevel(row) ==
    \A key \in ActiveKeys : ~contains(lower(StageOf(row)), key)

IsActive(row) == StatusOf(row) \in {<<>>, <<"In", " ", "Progress">>}

----------------------------------------------------------------------------
(* More Python primitives: str.split, str.join, str.replace, ordering *)

RECURSIVE SplitOn(_, _)
\* text.split(sep) for a one-atom separator: the pieces, empty ones included
SplitOn(t, sep) ==
    IF \A i \in 1..Len(t) : t[i] # sep THEN <<t>>
    ELSE LET i == CHOOSE i \in 1..Len(t) :
                      t[i] = sep /\ \A j \in 1..(i - 1) : t[j] # sep
         IN  <<SubSeq(t, 1, i - 1)>> \o SplitOn(SubSeq(t, i + 1, Len(t)), sep)

\* text.split(): the words between runs of blanks, no empty ones
split(t) == SelectSeq(SplitOn(t, " "), LAMBDA w : w # <<>>)

RECURSIVE join(_, _)
join(sep, parts) ==
    IF parts = <<>> THEN <<>>
    ELSE IF Len(parts) = 1 THEN parts[1]
    ELSE parts[1] \o sep \o join(sep, Tail(parts))

RECURSIVE replace_double_blank(_)
\* text.replace('  ', ' ')
replace_double_blank(t) ==
    IF Len(t) < 2 THEN t
    ELSE IF t[1] = " " /\ t[2] = " "
         THEN <<" ">> \o replace_double_blank(SubSeq(t, 3, Len(t)))
         ELSE <<t[1]>> \o replace_double_blank(Tail(t))

RECURSIVE dict_fromkeys(_)
\* list(dict.fromkeys(items)): duplicates removed, first occurrence kept
dict_fromkeys(items) ==
    IF items = <<>> THEN <<>>
    ELSE LET rest == dict_fromkeys(SubSeq(items, 1, Len(items) - 1))
             last == items[Len(items)]
         IN  IF \E i \in 1..Len(rest) : rest[i] = last THEN rest
             ELSE Append(rest, last)

\* The atoms that occur in grouping keys, in the order Python compares the
\* strings they stand for (code point order); no atom is a prefix of another,
\* so comparing texts atom by atom is comparing them character by character.
AtomOrder == << " ", "ACME", "Acme", "Beta", "Labs", "a.com", "beta.io", "no-domain" >>

AtomRank(a) == CHOOSE i \in 1..Len(AtomOrder) : AtomOrder[i] = a

RECURSIVE TextLess(_, _)
\* a < b on str
TextLess(a, b) ==
    IF b = <<>> THEN FALSE
    ELSE IF a = <<>> THEN TRUE
    ELSE IF a[1] = b[1] THEN TextLess(Tail(a), Tail(b))
    ELSE AtomRank(a[1]) < AtomRank(b[1])

\* (a1, a2) < (b1, b2) on tuples of str
KeyLess(a, b) == TextLess(a[1], b[1]) \/ (a[1] = b[1] /\ TextLess(a[2], b[2]))

RECURSIVE SortKeys(_)
\* the keys of a set in ascending order
SortKeys(S) ==
    IF S = {} THEN <<>>
    ELSE LET m == CHOOSE m \in S : \A k \in S \ {m} : KeyLess(m, k)
         IN  <<m>> \o SortKeys(S \ {m})

\* the sum as it would be if only the first child were counted
SumSeq_first(q) == IF q = <<>> THEN 0 ELSE q[1]

RECURSIVE SumSeq(_)
SumSeq(q) == IF q = <<>> THEN 0 ELSE q[1] + SumSeq(Tail(q))

MaxOf(S) == CHOOSE m \in S : \A x \in S : x <= m

----------------------------------------------------------------------------
(* SiteAggregationProcessor (src/processors/site_aggregation_processor.py) *)

BaseIndicators ==
    { "grenoble", "paris", "lyon", "toulouse", "hq", "headquarters", "usa", "france",
      "germany", "uk", "switzerland", "italy", "north", "south", "east", "west",
      "corp", "inc", "ltd", "sa" }

LocationIndicators ==
    { "grenoble", "paris", "lyon", "toulouse", "hq", "headquarters", "usa", "france",
      "germany", "uk", "switzerland", "italy" }

\* any(indicator in word for indicator in indicators)
HasIndicator(word, indicators) == \E ind \in indicators : contains(word, <<ind>>)

_extract_base_company_name(company_name) ==
    IF company_name = <<>> \/ isna(company_name) THEN <<>>
    ELSE LET name == strip(PyStr(company_name))
             words == split(name)
         IN  IF Len(words) > 1
             THEN IF HasIndicator(lower(words[Len(words)]), BaseIndicators)
                  THEN join(<<" ">>, SubSeq(words, 1, Len(words) - 1))
                  ELSE name
             ELSE name

_extract_location(company_name) ==
    IF company_name = <<>> \/ isna(company_name) THEN <<"HQ">>
    ELSE LET name == strip(PyStr(company_name))
             words == split(name)
         IN  IF Len(words) > 1
             THEN IF HasIndicator(lower(words[Len(words)]), LocationIndicators)
                  THEN words[Len(words)]
                  ELSE <<"HQ">>
             ELSE <<"HQ">>

\* re.sub('^' + one of prefixes, '', text)
StripPrefix(t, prefixes) ==
    IF t # <<>> /\ t[1] \in prefixes THEN Tail(t) ELSE t

_clean_domain(website) ==
    IF isna(website) \/ website \in {<<>>, <<"NULL">>, <<"NaN">>} THEN <<"no-domain">>
    ELSE LET d0 == lower(strip(PyStr(website)))
             d1 == StripPrefix(d0, {"http://", "https://"})
             d2 == StripPrefix(d1, {"www."})
             d3 == SplitOn(d2, "/")[1]
             d4 == SplitOn(d3, ":")[1]
         IN  IF d4 # <<>> THEN d4 ELSE <<"no-domain">>

_analyze_companies(companies) ==
    [ i \in 1..Len(companies) |->
        [ Comp_CompanyId |-> companies[i].Comp_CompanyId,
          Comp_Name |-> companies[i].Comp_Name,
          Comp_Website |-> companies[i].Comp_Website,
          base_company_name |-> _extract_base_company_name(companies[i].Comp_Name),
          location_extracted |-> _extract_location(companies[i].Comp_Name),
          domain_clean |-> _clean_domain(companies[i].Comp_Website) ] ]

GroupKey(row) == <<row.base_company_name, row.domain_clean>>

\* rows of a frame that carry the key, in row order
Members(frame, key) == SelectSeq(frame, LAMBDA row : GroupKey(row) = key)

\* GroupBy.first(): the first value that is not missing
FirstNotNa(values) ==
    LET present == SelectSeq(values, LAMBDA v : ~isna(v))
    IN  IF present = <<>> THEN NaN ELSE present[1]

\* groupby keys in order of first appearance (groupby(..., sort=False))
RECURSIVE KeysInRowOrder(_)
KeysInRowOrder(frame) ==
    IF frame = <<>> THEN <<>>
    ELSE LET rest == KeysInRowOrder(SubSeq(frame, 1, Len(frame) - 1))
             k == GroupKey(frame[Len(frame)])
         IN  IF \E i \in 1..Len(rest) : rest[i] = k THEN rest ELSE Append(rest, k)

\* the groupby as it would be with sort=False
groupby_keys_unsorted(frame) == KeysInRowOrder(frame)

\* groupby(['base_company_name', 'domain_clean']): its keys, sorted
groupby_keys(frame) == SortKeys({GroupKey(frame[i]) : i \in 1..Len(frame)})

\* line 343, as it would be with `site_count > 2`
is_multi_site_above_two(site_count) == site_count > 2

\* line 343, as it would be with `site_count >= 1`
is_multi_site_from_one(site_count) == site_count >= 1

\* line 343: groups['site_count'] > 1
is_multi_site(site_count) == site_count > 1

\* line 350, as it would be if ids went on from the highest id of the
\* previous result of the shared processor
max_company_id_carried(companies_analysis) ==
    MaxOf({companies_analysis[i].Comp_CompanyId : i \in 1..Len(companies_analysis)}
          \cup {site_aggregation_df[i].company_id : i \in 1..Len(site_aggregation_df)})

\* line 350: companies_analysis['Comp_CompanyId'].max()
max_company_id(companies_analysis) ==
    MaxOf({companies_analysis[i].Comp_CompanyId : i \in 1..Len(companies_analysis)})

_identify_domain_groups(companies_analysis) ==
    LET keys == groupby_keys(companies_analysis)
        groups ==
            [ g \in 1..Len(keys) |->
                LET members == Members(companies_analysis, keys[g])
                IN  [ base_company_name |-> keys[g][1],
                      domain_clean |-> keys[g][2],
                      site_count |-> Len(members),
                      Comp_Website |->
                          FirstNotNa([i \in 1..Len(members) |-> members[i].Comp_Website]),
                      Comp_Name |->
                          FirstNotNa([i \in 1..Len(members) |-> members[i].Comp_Name]) ] ]
        multi_site_groups == SelectSeq(groups, LAMBDA g : is_multi_site(g.site_count))
    IN  IF Len(multi_site_groups) = 0 THEN <<>>
        ELSE [ g \in 1..Len(multi_site_groups) |->
                 [ base_company_name |-> multi_site_groups[g].base_company_name,
                   domain_clean |-> multi_site_groups[g].domain_clean,
                   site_count |-> multi_site_groups[g].site_count,
                   Comp_Website |-> multi_site_groups[g].Comp_Website,
                   Comp_Name |-> multi_site_groups[g].Comp_Name,
                   new_parent_id |-> max_company_id(companies_analysis) + 1 + (g - 1),
                   has_multiple_sites |-> TRUE,
                   parent_website |-> multi_site_groups[g].Comp_Website ] ]

\* a missing id: the NaN of a left merge, the None of a parent's parent
NoId == 0

CommaBlank == <<",", " ">>

\* lines 167-177: the contacts of one company, aggregated; a company without
\* contacts gets the fill values of lines 197-200, which are the same
contact_lookup(contacts, company_id) ==
    LET rows == SelectSeq(contacts, LAMBDA c : c.Comp_CompanyId = company_id)
        emails == SelectSeq(rows, LAMBDA c : ~isna(c.Pers_EmailAddress))
    IN  [ contact_count |-> Len(rows),
          all_contact_first_names |->
              join(CommaBlank, [i \in 1..Len(rows) |-> PyStr(rows[i].Pers_FirstName)]),
          all_contact_last_names |->
              join(CommaBlank, [i \in 1..Len(rows) |-> PyStr(rows[i].Pers_LastName)]),
          all_contact_emails |->
              join(CommaBlank, [i \in 1..Len(emails) |-> PyStr(emails[i].Pers_EmailAddress)]) ]

\* lines 179-200: the analysed companies merged with their group and contacts
companies_with_contacts(companies_analysis, domain_groups, contacts) ==
    [ i \in 1..Len(companies_analysis) |->
        LET row == companies_analysis[i]
            grp == SelectSeq(domain_groups, LAMBDA g : GroupKey(g) = GroupKey(row))
            look == contact_lookup(contacts, row.Comp_CompanyId)
        IN  [ Comp_CompanyId |-> row.Comp_CompanyId,
              Comp_Name |-> row.Comp_Name,
              Comp_Website |-> row.Comp_Website,
              base_company_name |-> row.base_company_name,
              location_extracted |-> row.location_extracted,
              domain_clean |-> row.domain_clean,
              new_parent_id |-> IF grp = <<>> THEN NoId ELSE grp[1].new_parent_id,
              has_multiple_sites |-> IF grp = <<>> THEN FALSE ELSE grp[1].has_multiple_sites,
              contact_count |-> look.contact_count,
              all_contact_first_names |-> look.all_contact_first_names,
              all_contact_last_names |-> look.all_contact_last_names,
              all_contact_emails |-> look.all_contact_emails ] ]

\* line 244, as it would be without the groupby: the rows before row i
cumcount_ungrouped(frame, i) == i - 1

\* groupby(key).cumcount() of row i: the rows before it with the same key
cumcount(frame, i) ==
    Cardinality({j \in 1..(i - 1) : GroupKey(frame[j]) = GroupKey(frame[i])})

_create_site_records(cwc) ==
    [ i \in 1..Len(cwc) |->
        LET row == cwc[i]
            firsts == row.all_contact_first_names
            lasts == row.all_contact_last_names
        IN  [ company_id |-> row.Comp_CompanyId,
              parent_company_id |->
                  IF row.new_parent_id = NoId THEN row.Comp_CompanyId
                  ELSE row.new_parent_id,
              company_name |-> row.Comp_Name,
              base_company_name |-> row.base_company_name,
              location_extracted |-> row.location_extracted,
              domain_clean |-> row.domain_clean,
              company_website |-> row.Comp_Website,
              record_type |-> IF row.new_parent_id # NoId THEN "Site" ELSE "Standalone",
              has_multiple_sites |-> row.has_multiple_sites,
              site_order |-> cumcount(cwc, i) + 1,
              contact_count |-> row.contact_count,
              all_contact_names |->
                  IF firsts # <<>> \/ lasts # <<>>
                  THEN strip(replace_double_blank(firsts \o <<" ">> \o lasts))
                  ELSE <<>>,
              all_contact_emails |-> row.all_contact_emails,
              primary_contact_name |->
                  IF firsts # <<>> /\ lasts # <<>>
                  THEN strip(strip(SplitOn(firsts, ",")[1]) \o <<" ">>
                                 \o strip(SplitOn(lasts, ",")[1]))
                  ELSE <<>>,
              primary_contact_email |->
                  IF row.all_contact_emails # <<>>
                  THEN strip(SplitOn(row.all_contact_emails, ",")[1])
                  ELSE <<>>,
              source_type |-> "Original" ] ]

\* lines 306-311: the names of one child, first and last names zipped
ChildNames(child) ==
    IF child.all_contact_first_names = <<>> THEN <<>>
    ELSE LET first_names == SplitOn(child.all_contact_first_names, ",")
             last_names == SplitOn(child.all_contact_last_names, ",")
         IN  [ i \in 1..Min(Len(first_names), Len(last_names)) |->
                 strip(strip(first_names[i]) \o <<" ">> \o strip(last_names[i])) ]

\* lines 313-315: the emails of one child, empty ones dropped
ChildEmails(child) ==
    IF child.all_contact_emails = <<>> THEN <<>>
    ELSE LET emails == SplitOn(child.all_contact_emails, ",")
         IN  SelectSeq([i \in 1..Len(emails) |-> strip(emails[i])], LAMBDA e : e # <<>>)

RECURSIVE Flatten(_)
Flatten(lists) == IF lists = <<>> THEN <<>> ELSE lists[1] \o Flatten(Tail(lists))

_create_parent_records(domain_groups, cwc) ==
    [ g \in 1..Len(domain_groups) |->
        LET group == domain_groups[g]
            child_companies == Members(cwc, GroupKey(group))
            all_names ==
                Flatten([i \in 1..Len(child_companies) |-> ChildNames(child_companies[i])])
            all_emails ==
                Flatten([i \in 1..Len(child_companies) |-> ChildEmails(child_companies[i])])
            unique_names == dict_fromkeys(all_names)
            unique_emails == dict_fromkeys(all_emails)
        IN  [ company_id |-> group.new_parent_id,
              parent_company_id |-> NoId,
              company_name |-> group.base_company_name,
              base_company_name |-> group.base_company_name,
              location_extracted |-> <<"HQ">>,
              domain_clean |-> group.domain_clean,
              company_website |-> group.parent_website,
              record_type |-> "Parent_Aggregator",
              has_multiple_sites |-> TRUE,
              site_order |-> 0,
              contact_count |->
                  SumSeq([i \in 1..Len(child_companies) |-> child_companies[i].contact_count]),
              all_contact_names |-> join(CommaBlank, unique_names),
              all_contact_emails |-> join(CommaBlank, unique_emails),
              primary_contact_name |->
                  IF unique_names # <<>> THEN unique_names[1] ELSE <<>>,
              primary_contact_email |->
                  IF unique_emails # <<>> THEN unique_emails[1] ELSE <<>>,
              source_type |-> "Generated" ] ]

_create_company_aggregation(companies_analysis, domain_groups, contacts) ==
    LET cwc == companies_with_contacts(companies_analysis, domain_groups, contacts)
    IN  _create_site_records(cwc) \o _create_parent_records(domain_groups, cwc)

process_site_aggregation(companies, contacts) ==
    LET companies_analysis == _analyze_companies(companies)
        domain_groups == _identify_domain_groups(companies_analysis)
    IN  _create_company_aggregation(companies_analysis, domain_groups, contacts)

----------------------------------------------------------------------------
(* The datasets the model feeds to the site aggregation *)

CompanyCells ==
    { [Comp_Name |-> <<"Acme", " ", "Grenoble">>,
       Comp_Website |-> <<"https://", "www.", "a.com", "/", "fr">>],
      [Comp_Name |-> <<"Acme", " ", "Paris">>,
       Comp_Website |-> <<"A.com", "/", "en">>],
      [Comp_Name |-> <<"Beta", " ", "Corp">>, Comp_Website |-> <<"beta.io">>],
      [Comp_Name |-> <<"Beta", " ", "Labs">>,
       Comp_Website |-> <<"http://", "beta.io", ":", "8080">>],
      [Comp_Name |-> <<"Beta">>, Comp_Website |-> NaN] }

\* company ids are unique: ascending from 1, or descending odd numbers so
\* that the largest id is on the first row
CompanyId(pattern, n, i) == IF pattern = "up" THEN i ELSE 2 * (n - i) + 3

CompanyFrames ==
    UNION { { [ i \in 1..n |->
                  [ Comp_CompanyId |-> CompanyId(pattern, n, i),
                    Comp_Name |-> cells[i].Comp_Name,
                    Comp_Website |-> cells[i].Comp_Website ] ] :
              cells \in [1..n -> CompanyCells], pattern \in {"up", "down"} } :
            n \in 1..MaxCompanies }

Person(first, last, email) ==
    [Pers_FirstName |-> <<first>>, Pers_LastName |-> <<last>>, Pers_EmailAddress |-> email]

\* contact frames, each contact placed on a company row (0: on no company)
ContactTemplates ==
    { << <<1, Person("Ann", "Lee", <<"ann@a.com">>)>>,
         <<2, Person("Bob", "Ray", <<"bob@a.com">>)>> >>,
      << <<1, Person("Ann", "Lee", NaN)>>,
         <<2, Person("Ann", "Lee", <<"al@a.com">>)>>,
         <<2, Person("Bob", "Ray", <<"bob@a.com">>)>> >>,
      << <<2, Person("Ann", "Lee", <<"ann@a.com">>)>>,
         <<1, Person("Ann", "Lee", <<"ann@a.com">>)>>,
         <<0, Person("Zed", "Kim", NaN)>> >>,
      << <<1, Person("Zed", "Kim", NaN)>>,
         <<2, Person("Ann", "Lee", <<"ann@a.com">>)>>,
         <<2, Person("Ann", "Lee", <<"al@a.com">>)>> >> }

ContactFrame(template, companies) ==
    [ i \in 1..Len(template) |->
        [ Pers_PersonId |-> i,
          Comp_CompanyId |->
              IF template[i][1] \in 1..Len(companies)
              THEN companies[template[i][1]].Comp_CompanyId ELSE NoId,
          Pers_FirstName |-> template[i][2].Pers_FirstName,
          Pers_LastName |-> template[i][2].Pers_LastName,
          Pers_EmailAddress |-> template[i][2].Pers_EmailAddress ] ]

TheProcessor == [logger |-> "processors.site_aggregation_processor"]

----------------------------------------------------------------------------
(* Communication associations                                              *)
(* (business_transformation_processor.py, associations_processor.py)       *)

\* the names the lookups hold for an id
CompanyName(id) == IF id = 1 THEN <<"Acme">> ELSE <<"Beta">>
ContactInfo(id) == IF id = 1 THEN Person("Ann", "Lee", <<"ann@a.com">>)
                   ELSE Person("Bob", "Ray", NaN)
DealInfo(id) ==
    [ deal_name |-> IF id = 1 THEN <<"Study">> ELSE <<"Chip">>,
      pipeline |-> IF id = 1 THEN STUDIES ELSE SALES,
      deal_stage |-> IF id = 1 THEN "Closed Won" ELSE "Identified" ]

\* pd.notna(x) and x in lookup
Resolved(x, lookup) == x # NoId /\ x \in lookup

\* lines 239-247 as they would be if the contact status consulted the
\* company lookup
association_status_crossed(x, lookup, missing) ==
    IF missing = "NO_CONTACT_FOUND"
    THEN (IF Resolved(x, lookups.companies) THEN "SUCCESS" ELSE missing)
    ELSE (IF Resolved(x, lookup) THEN "SUCCESS" ELSE missing)

\* 'SUCCESS' if pd.notna(x) and x in lookup else <missing>
association_status(x, lookup, missing) ==
    IF Resolved(x, lookup) THEN "SUCCESS" ELSE missing

\* the per-row content of create_communication_associations (lines 201-253)
create_communication_associations(comm, deal_lookup, company_lookup, contact_lookup_ids) ==
    [ done |-> TRUE,
      communication_id |-> comm.Comm_CommunicationId,
      legacy_opportunity_id |-> comm.Oppo_OpportunityId,
      legacy_person_id |-> comm.Pers_PersonId,
      legacy_company_id |-> comm.Comp_CompanyId,
      transformed_deal_name |->
          IF Resolved(comm.Oppo_OpportunityId, deal_lookup)
          THEN DealInfo(comm.Oppo_OpportunityId).deal_name ELSE <<>>,
      transformed_deal_stage |->
          IF Resolved(comm.Oppo_OpportunityId, deal_lookup)
          THEN DealInfo(comm.Oppo_OpportunityId).deal_stage ELSE "",
      company_name |->
          IF comm.Comp_CompanyId \in company_lookup
          THEN CompanyName(comm.Comp_CompanyId) ELSE <<"Unknown", " ", "Company">>,
      contact_email |->
          IF Resolved(comm.Pers_PersonId, contact_lookup_ids)
          THEN ContactInfo(comm.Pers_PersonId).Pers_EmailAddress ELSE <<>>,
      deal_association_status |->
          association_status(comm.Oppo_OpportunityId, deal_lookup, "NO_DEAL_FOUND"),
      company_association_status |->
          association_status(comm.Comp_CompanyId, company_lookup, "NO_COMPANY_FOUND"),
      contact_association_status |->
          association_status(comm.Pers_PersonId, contact_lookup_ids, "NO_CONTACT_FOUND"),
      hubspot_company_id |-> "TBD",
      hubspot_contact_id |-> "TBD",
      hubspot_deal_id |-> "TBD",
      hubspot_engagement_id |-> "TBD" ]

\* the per-row content of process_communications_with_associations (lines 50-91)
process_communications_with_associations(comm, company_lookup, contact_lookup_ids) ==
    [ done |-> TRUE,
      communication_id |-> comm.Comm_CommunicationId,
      legacy_opportunity_id |-> comm.Oppo_OpportunityId,
      legacy_person_id |-> comm.Pers_PersonId,
      legacy_company_id |-> comm.Comp_CompanyId,
      company_name |->
          IF comm.Comp_CompanyId \in company_lookup
          THEN CompanyName(comm.Comp_CompanyId) ELSE <<"Unknown", " ", "Company">>,
      contact_email |->
          IF Resolved(comm.Pers_PersonId, contact_lookup_ids)
          THEN ContactInfo(comm.Pers_PersonId).Pers_EmailAddress ELSE <<>>,
      company_association_status |->
          association_status(comm.Comp_CompanyId, company_lookup, "NO_COMPANY_FOUND"),
      contact_association_status |->
          association_status(comm.Pers_PersonId, contact_lookup_ids, "NO_CONTACT_FOUND"),
      hubspot_company_id |-> "TBD",
      hubspot_contact_id |-> "TBD",
      hubspot_deal_id |-> "TBD" ]

EntityIds == 1..MaxEntityId

\* the ids a communication can reference: a present one, one beyond the
\* datasets, or none (NaN)
ReferencedIds == {NoId} \cup EntityIds \cup {MaxEntityId + 1}

Communications ==
    [ Comm_CommunicationId : {1}, Oppo_OpportunityId : ReferencedIds,
      Pers_PersonId : ReferencedIds, Comp_CompanyId : ReferencedIds ]

NoCommAssociations ==
    [ done |-> FALSE, communication_id |-> NoId, legacy_opportunity_id |-> NoId,
      legacy_person_id |-> NoId, legacy_company_id |-> NoId,
      transformed_deal_name |-> <<>>, transformed_deal_stage |-> "",
      company_name |-> <<>>, contact_email |-> <<>>,
      deal_association_status |-> "", company_association_status |-> "",
      contact_association_status |-> "", hubspot_company_id |-> "",
      hubspot_contact_id |-> "", hubspot_deal_id |-> "", hubspot_engagement_id |-> "" ]

NoCommResult ==
    [ done |-> FALSE, communication_id |-> NoId, legacy_opportunity_id |-> NoId,
      legacy_person_id |-> NoId, legacy_company_id |-> NoId,
      company_name |-> <<>>, contact_email |-> <<>>,
      company_association_status |-> "", contact_association_status |-> "",
      hubspot_company_id |-> "", hubspot_contact_id |-> "", hubspot_deal_id |-> "" ]

----------------------------------------------------------------------------
(* The opportunity run: business rules first, business transformation next *)

InitStage ==
    /\ opportunity \in OpportunityRows
    /\ hubspot = NoHubspot
    /\ deal = NoDeal
    /\ pcStage = "extracted"

\* BusinessRulesEngine.apply_business_rules_to_opportunities, step 2
ApplyPipelineMapping ==
    /\ pcStage = "extracted"
    /\ hubspot' = apply_pipeline_mapping(opportunity)
    /\ pcStage' = "processed"
    /\ UNCHANGED <<opportunity, deal>>

\* main_pipeline.apply_business_transformation
TransformDeals ==
    /\ pcStage = "processed"
    /\ deal' = transform_deals_to_hubspot_format(opportunity)
    /\ pcStage' = "transformed"
    /\ UNCHANGED <<opportunity, hubspot>>

----------------------------------------------------------------------------
(* The site aggregation run: the caller invokes the shared processor on   *)
(* the same datasets, once and then once more                              *)

StageIdle ==
    /\ opportunity = [ Oppo_Status |-> <<>>, Oppo_Stage |-> <<>>, Oppo_Type |-> <<>>,
                       Oppo_Certainty |-> [k |-> "na", v |-> 0] ]
    /\ hubspot = NoHubspot
    /\ deal = NoDeal
    /\ pcStage = "idle"

SiteIdle ==
    /\ companies_df = <<>>
    /\ contacts_df = <<>>
    /\ site_aggregation_df = <<>>
    /\ first_aggregation_df = <<>>
    /\ site_runs = 0
    /\ processor = TheProcessor

InitSite ==
    /\ companies_df \in CompanyFrames
    /\ \E template \in ContactTemplates : contacts_df = ContactFrame(template, companies_df)
    /\ site_aggregation_df = <<>>
    /\ first_aggregation_df = <<>>
    /\ site_runs = 0
    /\ processor = TheProcessor

\* main_pipeline.apply_site_aggregation: one call of process_site_aggregation;
\* the inputs are copied, not changed, and no attribute of the processor is set
ProcessSiteAggregation ==
    /\ site_runs < 2
    /\ site_aggregation_df' = process_site_aggregation(companies_df, contacts_df)
    /\ first_aggregation_df' =
          IF site_runs = 0 THEN site_aggregation_df' ELSE first_aggregation_df
    /\ site_runs' = site_runs + 1
    /\ UNCHANGED <<companies_df, contacts_df, processor>>

----------------------------------------------------------------------------
(* The communication association run *)

AssocIdle ==
    /\ communication = [ Comm_CommunicationId |-> 1, Oppo_OpportunityId |-> NoId,
                         Pers_PersonId |-> NoId, Comp_CompanyId |-> NoId ]
    /\ lookups = [deals |-> {}, companies |-> {}, persons |-> {}]
    /\ comm_associations = NoCommAssociations
    /\ comm_result = NoCommResult

InitAssoc ==
    /\ communication \in Communications
    /\ lookups \in [ deals : SUBSET EntityIds, companies : SUBSET EntityIds,
                     persons : SUBSET EntityIds ]
    /\ comm_associations = NoCommAssociations
    /\ comm_result = NoCommResult

\* main_pipeline.create_communication_associations
CreateCommunicationAssociations ==
    /\ ~comm_associations.done
    /\ comm_associations' =
          create_communication_associations(communication, lookups.deals,
                                            lookups.companies, lookups.persons)
    /\ UNCHANGED <<communication, lookups, comm_result>>

\* AssociationsProcessor.process_communications_with_associations
ProcessCommunicationsWithAssociations ==
    /\ ~comm_result.done
    /\ comm_result' =
          process_communications_with_associations(communication, lookups.companies,
                                                   lookups.persons)
    /\ UNCHANGED <<communication, lookups, comm_associations>>

----------------------------------------------------------------------------
(* Social network links (src/processors/associations_processor.py) *)

\* Related_TableID of a company and of a person
CompanyTable == 5
PersonTable == 13

\* the value a Python function returns when it ends without a return
NoneSlot == "<None>"

LinkedInKeys == { <<"in", "/">>, <<"linked", "in", ".com">> }
WebsiteKeys == { <<"company", "/">>, <<".com">>, <<".org">>, <<".net">>, <<".fr">> }
TwitterKeys == { <<"twitter", ".com">>, <<"x", ".com">> }
FacebookKeys == { <<"facebook", ".com">> }

\* any(key in link for key in keys)
ContainsAny(link, keys) == \E key \in keys : contains(link, key)

\* the linkedin branch with a final else that falls back to the default
_determine_hubspot_property_with_default(row) ==
    LET link == lower(PyStr(row.sone_networklink))
        table_id == row.Related_TableID
    IN  IF ContainsAny(link, LinkedInKeys)
        THEN IF table_id = PersonTable THEN "linkedin_bio"
             ELSE IF table_id = CompanyTable THEN "linkedin_company_page"
             ELSE "website"
        ELSE IF ContainsAny(link, WebsiteKeys) THEN "website"
        ELSE IF ContainsAny(link, TwitterKeys) THEN "twitterhandle"
        ELSE IF ContainsAny(link, FacebookKeys)
        THEN IF table_id = CompanyTable THEN "facebook_company_page" ELSE "hs_facebookid"
        ELSE "website"

_determine_hubspot_property(row) ==
    LET link == lower(PyStr(row.sone_networklink))
        table_id == row.Related_TableID
    IN  IF ContainsAny(link, LinkedInKeys)
        THEN IF table_id = PersonTable THEN "linkedin_bio"
             ELSE IF table_id = CompanyTable THEN "linkedin_company_page"
             ELSE NoneSlot
        ELSE IF ContainsAny(link, WebsiteKeys) THEN "website"
        ELSE IF ContainsAny(link, TwitterKeys) THEN "twitterhandle"
        ELSE IF ContainsAny(link, FacebookKeys)
        THEN IF table_id = CompanyTable THEN "facebook_company_page" ELSE "hs_facebookid"
        ELSE "website"

\* Related_TableID.map({5: 'Company', 13: 'Person'}).fillna('Unknown')
entity_type(table_id) ==
    IF table_id = CompanyTable THEN "Company"
    ELSE IF table_id = PersonTable THEN "Person"
    ELSE "Unknown"

AutoLink == <<"#AUTO#">>

\* the per-row content of process_social_networks_with_associations: rows
\* whose link is the placeholder are filtered out first
process_social_networks_with_associations(row) ==
    IF row.sone_networklink = AutoLink
    THEN [ done |-> TRUE, kept |-> FALSE, network_link |-> <<>>,
           related_table_id |-> NoId, entity_type |-> "", hubspot_property_target |-> "" ]
    ELSE [ done |-> TRUE, kept |-> TRUE,
           network_link |-> row.sone_networklink,
           related_table_id |-> row.Related_TableID,
           entity_type |-> entity_type(row.Related_TableID),
           hubspot_property_target |-> _determine_hubspot_property(row) ]

\* The atoms of link texts.  No atom other than "in", "x" and "company" ends
\* with the letters in, x or company, and the domain endings are atoms of
\* their own, so the substring tests on atoms are the tests on characters.
LinkAtoms ==
    { "linked", "Linked", "in", ".com", "/", "company", "twitter", "facebook", "acme" }

RECURSIVE Texts(_, _)
Texts(atoms, n) ==
    IF n = 0 THEN {<<>>}
    ELSE LET shorter == Texts(atoms, n - 1)
         IN  shorter \cup {Append(t, a) : t \in shorter, a \in atoms}

SocialLinks == Texts(LinkAtoms, MaxLinkLen) \cup {NaN, AutoLink}

\* a company, a person, or a table id that is neither (a missing one)
TableIds == {CompanyTable, PersonTable, NoId}

SocialNetworks ==
    [sone_networklink : SocialLinks, Related_TableID : TableIds]

NoSocialResult ==
    [ done |-> FALSE, kept |-> FALSE, network_link |-> <<>>, related_table_id |-> NoId,
      entity_type |-> "", hubspot_property_target |-> "" ]

SocialIdle ==
    /\ social_network = [sone_networklink |-> <<>>, Related_TableID |-> NoId]
    /\ social_result = NoSocialResult

InitSocial ==
    /\ social_network \in SocialNetworks
    /\ social_result = NoSocialResult

\* AssociationsProcessor.process_social_networks_with_associations
ProcessSocialNetworksWithAssociations ==
    /\ ~social_result.done
    /\ social_result' = process_social_networks_with_associations(social_network)
    /\ UNCHANGED social_network

----------------------------------------------------------------------------
(* The enhanced pipeline run (main_pipeline.run_enhanced_pipeline) *)

\* A dataset of processed_data, reduced to what decides whether a stage
\* fails: whether the view could be read at all, whether it has rows, and
\* which of the columns the stages read are missing from it.
Dataset(rows, missing) == [loaded |-> TRUE, rows |-> rows, missing |-> missing]

NotLoaded == [loaded |-> FALSE, rows |-> 0, missing |-> {}]

\* the columns each stage reads, per dataset
StageReads(stage) ==
    CASE stage = "transform" ->
            [ opportunities |-> {"Oppo_Description"}, companies |-> {},
              persons |-> {}, communications |-> {}, social_networks |-> {} ]
      [] stage = "communications" ->
            [ opportunities |-> {}, companies |-> {"Comp_Name"},
              persons |-> {"Pers_EmailAddress"}, communications |-> {"Comm_Subject"},
              social_networks |-> {} ]
      [] stage = "social" ->
            [ opportunities |-> {}, companies |-> {"Comp_Name"}, persons |-> {},
              communications |-> {}, social_networks |-> {"sone_networklink"} ]
      [] stage = "site" ->
            [ opportunities |-> {}, companies |-> {"Comp_Name", "Comp_Website"},
              persons |-> {"Pers_EmailAddress"}, communications |-> {},
              social_networks |-> {} ]

DatasetNames == {"opportunities", "companies", "persons", "communications", "social_networks"}

\* a column the stage reads is missing: the processor raises KeyError (or
\* AttributeError), catches it, logs the error and returns an empty frame
Raises(stage, data) ==
    \E name \in DatasetNames : data[name].missing \cap StageReads(stage)[name] # {}

\* What a stage function hands back to run_enhanced_pipeline: value is
\* "None", "empty" (a frame without rows) or "data"; error tells whether an
\* error was logged or printed on the way.
Returned(value, error) == [value |-> value, error |-> error]

apply_business_transformation(data) ==
    IF \A name \in DatasetNames : ~data[name].loaded THEN Returned("None", TRUE)
    ELSE IF ~data.companies.loaded \/ ~data.persons.loaded \/ ~data.opportunities.loaded
    THEN Returned("None", TRUE)
    ELSE IF Raises("transform", data) \/ data.opportunities.rows = 0
    THEN Returned("None", TRUE)
    ELSE Returned("data", FALSE)

main_create_communication_associations(data, transformed_deals_df) ==
    IF ~data.communications.loaded \/ ~data.companies.loaded \/ ~data.persons.loaded
    THEN Returned("None", TRUE)
    ELSE IF Raises("communications", data) \/ transformed_deals_df # "data"
                \/ data.communications.rows = 0
    THEN Returned("None", TRUE)
    ELSE Returned("data", FALSE)

process_social_networks(data) ==
    IF ~data.social_networks.loaded \/ ~data.companies.loaded \/ ~data.persons.loaded
    THEN Returned("None", TRUE)
    ELSE IF Raises("social", data) THEN Returned("empty", TRUE)
    ELSE IF data.social_networks.rows = 0 THEN Returned("empty", FALSE)
    ELSE Returned("data", FALSE)

apply_site_aggregation(data) ==
    IF ~data.companies.loaded \/ ~data.persons.loaded THEN Returned("None", TRUE)
    ELSE IF Raises("site", data) THEN Returned("empty", TRUE)
    ELSE IF data.companies.rows = 0 THEN Returned("empty", FALSE)
    ELSE Returned("data", FALSE)

\* the files export_enhanced_pipeline_results writes
export_enhanced_pipeline_results(data, deals_df, comm_df, social_df, site_df) ==
    (IF deals_df = "data"
     THEN {"deals_transformed_tohubspot_success.csv"} ELSE {})
    \cup (IF comm_df = "data"
          THEN {"communications_associations_success.csv"} ELSE {})
    \cup (IF social_df = "data"
          THEN {"social_networks_associations_success.csv"} ELSE {})
    \cup (IF site_df = "data"
          THEN {"companies_site_aggregation_success.csv"} ELSE {})
    \cup (IF data.companies.loaded THEN {"companies_enhanced_success.csv"} ELSE {})
    \cup (IF data.persons.loaded THEN {"contacts_enhanced_success.csv"} ELSE {})

\* the order of the steps as it would be with site aggregation moved before
\* the association steps
step_after_site_first(stage) ==
    CASE stage = "validate" -> "extract"
      [] stage = "extract" -> "process"
      [] stage = "process" -> "transform"
      [] stage = "transform" -> "site"
      [] stage = "site" -> "communications"
      [] stage = "communications" -> "social"
      [] stage = "social" -> "export"
      [] stage = "export" -> "done"

\* the order of the steps of run_enhanced_pipeline (steps 1 to 8)
step_after(stage) ==
    CASE stage = "validate" -> "extract"
      [] stage = "extract" -> "process"
      [] stage = "process" -> "transform"
      [] stage = "transform" -> "communications"
      [] stage = "communications" -> "social"
      [] stage = "social" -> "site"
      [] stage = "site" -> "export"
      [] stage = "export" -> "done"

\* the failure handling as it would be if no step ended the run
aborts_run_never(stage) == FALSE

\* whether run_enhanced_pipeline returns False when the step hands back a
\* failure (steps 1-4 and 8) or replaces it by an empty frame and goes on
\* (steps 5-7)
aborts_run(stage) == stage \in {"validate", "extract", "process", "transform", "export"}

\* the local of run_enhanced_pipeline that holds a step's output
OutputOf(stage) ==
    CASE stage = "transform" -> "transformed_deals_df"
      [] stage = "communications" -> "comm_associations_df"
      [] stage = "social" -> "social_associations_df"
      [] stage = "site" -> "site_aggregation_df"

\* One step of run_enhanced_pipeline: the step function has handed back
\* `returned`; a failure (None / False) either ends the run with False or is
\* replaced by an empty frame.
AfterStep(stage, returned) ==
    LET failure == returned.value \in {"None", "False"}
        logged == [run EXCEPT !.executed = Append(@, stage),
                              !.errors = IF returned.error THEN @ \cup {stage} ELSE @]
    IN  IF failure /\ aborts_run(stage)
        THEN [logged EXCEPT !.pc = "done", !.result = "False"]
        ELSE IF stage \in {"transform", "communications", "social", "site"}
        THEN [logged EXCEPT !.pc = step_after(stage),
                            ![OutputOf(stage)] =
                                IF failure THEN "empty" ELSE returned.value]
        ELSE [logged EXCEPT !.pc = step_after(stage)]

RunFaults == {"none", "validate", "extract", "process", "export"}

OpportunityDatasets ==
    {NotLoaded} \cup {Dataset(rows, missing) :
                        rows \in {0, 1}, missing \in {{}, {"Oppo_Description"}}}

CompanyDatasets ==
    {NotLoaded} \cup {Dataset(rows, missing) :
                        rows \in {0, 1}, missing \in {{}, {"Comp_Website"}, {"Comp_Name"}}}

PersonDatasets ==
    {NotLoaded, Dataset(1, {}), Dataset(1, {"Pers_EmailAddress"})}

CommunicationDatasets ==
    {NotLoaded} \cup {Dataset(rows, missing) :
                        rows \in {0, 1}, missing \in {{}, {"Comm_Subject"}}}

\* test_duckdb_processing exports four views; it never sets 'social_networks'
ProcessedData ==
    [ opportunities : OpportunityDatasets, companies : CompanyDatasets,
      persons : PersonDatasets, communications : CommunicationDatasets,
      social_networks : {NotLoaded} ]

RunStart ==
    [ pc |-> "validate", result |-> "running",
      transformed_deals_df |-> "unassigned", comm_associations_df |-> "unassigned",
      social_associations_df |-> "unassigned", site_aggregation_df |-> "unassigned",
      deals_given_to_associations |-> "unassigned",
      executed |-> <<>>, errors |-> {}, exported |-> {} ]

RunIdle ==
    /\ run_faults = "none"
    /\ bronze_data = {}
    /\ processed_data =
          [ opportunities |-> NotLoaded, companies |-> NotLoaded, persons |-> NotLoaded,
            communications |-> NotLoaded, social_networks |-> NotLoaded ]
    /\ run = [RunStart EXCEPT !.pc = "idle"]

\* extract_all_bronze_data returns every dataset it could read, social
\* networks included; the four processed views have rows only when their
\* bronze table has
BronzeData(data) ==
    LET processed == {name \in DatasetNames : data[name].loaded /\ data[name].rows > 0}
    IN  {processed \cup extra : extra \in SUBSET {"social_networks"}}

InitRun ==
    /\ run_faults \in RunFaults
    /\ processed_data \in ProcessedData
    /\ bronze_data \in BronzeData(processed_data)
    /\ run = RunStart

\* step 1: test_csv_validation
RunValidateCsv ==
    /\ run.pc = "validate"
    /\ run' = AfterStep("validate",
                 IF run_faults = "validate" THEN Returned("False", TRUE)
                 ELSE Returned("True", FALSE))
    /\ UNCHANGED <<run_faults, bronze_data, processed_data>>

\* step 2: test_bronze_extraction
RunExtractBronze ==
    /\ run.pc = "extract"
    /\ run' = AfterStep("extract",
                 IF run_faults = "extract" THEN Returned("None", TRUE)
                 ELSE Returned("data", FALSE))
    /\ UNCHANGED <<run_faults, bronze_data, processed_data>>

\* step 3: test_duckdb_processing; an empty dict is a failure as well
RunProcessDuckdb ==
    /\ run.pc = "process"
    /\ run' = AfterStep("process",
                 IF run_faults = "process" THEN Returned("None", TRUE)
                 ELSE IF \A name \in DatasetNames : ~processed_data[name].loaded
                 THEN Returned("None", TRUE)
                 ELSE Returned("data", FALSE))
    /\ UNCHANGED <<run_faults, bronze_data, processed_data>>

\* step 4: apply_business_transformation
RunBusinessTransformation ==
    /\ run.pc = "transform"
    /\ run' = AfterStep("transform", apply_business_transformation(processed_data))
    /\ UNCHANGED <<run_faults, bronze_data, processed_data>>

\* step 5: create_communication_associations, given the transformed deals
RunCommunicationAssociations ==
    /\ run.pc = "communications"
    /\ run' = [ AfterStep("communications",
                    main_create_communication_associations(processed_data,
                                                           run.transformed_deals_df))
                EXCEPT !.deals_given_to_associations = run.transformed_deals_df ]
    /\ UNCHANGED <<run_faults, bronze_data, processed_data>>

\* step 6: process_social_networks
RunSocialNetworks ==
    /\ run.pc = "social"
    /\ run' = AfterStep("social", process_social_networks(processed_data))
    /\ UNCHANGED <<run_faults, bronze_data, processed_data>>

\* step 7: apply_site_aggregation
RunSiteAggregation ==
    /\ run.pc = "site"
    /\ run' = AfterStep("site", apply_site_aggregation(processed_data))
    /\ UNCHANGED <<run_faults, bronze_data, processed_data>>

\* step 8: export_enhanced_pipeline_results, then the final summary
RunExport ==
    /\ run.pc = "export"
    /\ LET files == IF run_faults = "export" THEN {}
                    ELSE export_enhanced_pipeline_results(processed_data,
                             run.transformed_deals_df, run.comm_associations_df,
                             run.social_associations_df, run.site_aggregation_df)
           after == AfterStep("export",
                        IF files = {} THEN Returned("False", TRUE)
                        ELSE Returned("True", FALSE))
       IN  run' = [ after EXCEPT !.exported = files,
                                 !.result = IF after.result = "False" THEN "False"
                                            ELSE "True" ]
    /\ UNCHANGED <<run_faults, bronze_data, processed_data>>

----------------------------------------------------------------------------
(* The computed fields (src/business_logic/computed_columns.py and the     *)
(* computed-columns-calculator of IC_Load)                                 *)
(*                                                                         *)
(* A frame row is a function from column names to cells.  A numeric cell   *)
(* is a record [k, v] as for Oppo_Certainty.  The columns that carry a     *)
(* multiplication by certainty / 100 (weighted_forecast and                *)
(* net_weighted_amount) are counted in hundredths of the currency unit, so *)
(* that forecast * (certainty / 100) is the integer forecast * certainty;  *)
(* net_amount is counted in units.                                         *)

\* df[col] = val on the one row
SetColumn(df, col, val) ==
    [c \in DOMAIN df \cup {col} |-> IF c = col THEN val ELSE df[c]]

Number(v) == [k |-> "num", v |-> v]

\* pd.to_numeric(x, errors='coerce').fillna(0)
to_numeric(cell) == Number(IF cell.k \in {"num", "numstr"} THEN cell.v ELSE 0)

calculate_weighted_forecast(df) ==
    LET forecast == SetColumn(df, "Oppo_Forecast", to_numeric(df["Oppo_Forecast"]))
        certainty == SetColumn(forecast, "Oppo_Certainty",
                               to_numeric(forecast["Oppo_Certainty"]))
    IN  SetColumn(certainty, "weighted_forecast",
                  certainty["Oppo_Forecast"].v * certainty["Oppo_Certainty"].v)

calculate_net_amount(df) ==
    LET forecast == SetColumn(df, "Oppo_Forecast", to_numeric(df["Oppo_Forecast"]))
        cost == SetColumn(forecast, "oppo_cout", to_numeric(forecast["oppo_cout"]))
    IN  SetColumn(cost, "net_amount", cost["Oppo_Forecast"].v - cost["oppo_cout"].v)

\* calculate_net_weighted_amount as it would be without lines 68-69: with no
\* net_amount column the multiplication raises KeyError and the frame comes
\* back without the new column
calculate_net_weighted_amount_no_recompute(df) ==
    LET certainty == SetColumn(df, "Oppo_Certainty", to_numeric(df["Oppo_Certainty"]))
    IN  IF "net_amount" \notin DOMAIN certainty THEN certainty
        ELSE SetColumn(certainty, "net_weighted_amount",
                       certainty["net_amount"] * certainty["Oppo_Certainty"].v)

calculate_net_weighted_amount(df) ==
    LET net == IF "net_amount" \notin DOMAIN df THEN calculate_net_amount(df) ELSE df
        certainty == SetColumn(net, "Oppo_Certainty", to_numeric(net["Oppo_Certainty"]))
    IN  SetColumn(certainty, "net_weighted_amount",
                  certainty["net_amount"] * certainty["Oppo_Certainty"].v)

\* a quotient times 100, kept as the fraction num / den
Ratio(num, den) == [num |-> num, den |-> den]

calculate_roi_metrics(df) ==
    LET net == IF "net_amount" \notin DOMAIN df THEN calculate_net_amount(df) ELSE df
        forecast == SetColumn(net, "Oppo_Forecast", to_numeric(net["Oppo_Forecast"]))
        cost == SetColumn(forecast, "oppo_cout", to_numeric(forecast["oppo_cout"]))
        margin == IF cost["Oppo_Forecast"].v > 0
                  THEN Ratio(cost["net_amount"] * 100, cost["Oppo_Forecast"].v)
                  ELSE Ratio(0, 1)
        roi == IF cost["oppo_cout"].v > 0
               THEN Ratio(cost["net_amount"] * 100, cost["oppo_cout"].v)
               ELSE Ratio(0, 1)
    IN  SetColumn(SetColumn(cost, "margin_percentage", margin), "roi_percentage", roi)

\* ComputedColumnsCalculator (IC_Load): the three formulas on numbers; a
\* missing value gives a missing value.  Products are kept in hundredths.
NaNCell == [k |-> "na", v |-> 0]

calculator_calculate_weighted_forecast(amount, certainty) ==
    IF amount.k = "num" /\ certainty.k = "num"
    THEN Number(100 * (amount.v * certainty.v)) ELSE NaNCell

calculator_calculate_net_amount(forecast, cost) ==
    IF forecast.k = "num" /\ cost.k = "num" THEN Number(forecast.v - cost.v) ELSE NaNCell

calculator_calculate_net_weighted_amount(net_amount, certainty) ==
    IF net_amount.k = "num" /\ certainty.k = "num"
    THEN Number(100 * (net_amount.v * certainty.v)) ELSE NaNCell

\* calculate_all on the row with columns forecast, certainty and cost
calculate_all(df) ==
    LET net_amount == calculator_calculate_net_amount(df.forecast, df.cost)
    IN  [ done |-> TRUE,
          weighted_forecast |->
              calculator_calculate_weighted_forecast(df.forecast, df.certainty),
          net_amount |-> net_amount,
          net_weighted_amount |->
              calculator_calculate_net_weighted_amount(net_amount, df.certainty) ]

ForecastCells ==
    { Number(0), Number(3), Number(1000), NaNCell, [k |-> "numstr", v |-> 1000],
      [k |-> "badstr", v |-> 0] }

CostCells == { Number(0), Number(200), Number(1500), NaNCell, [k |-> "numstr", v |-> 200] }

PercentCells ==
    { Number(0), Number(10), Number(80), Number(100), NaNCell,
      [k |-> "numstr", v |-> 80], [k |-> "badstr", v |-> 0] }

OpportunityFrames ==
    [ Oppo_Forecast : ForecastCells, oppo_cout : CostCells, Oppo_Certainty : PercentCells ]

NoCalculator ==
    [ done |-> FALSE, weighted_forecast |-> NaNCell, net_amount |-> NaNCell,
      net_weighted_amount |-> NaNCell ]

Called(name) == \E i \in 1..Len(applied) : applied[i] = name

ComputedIdle ==
    /\ opportunities_df = [ Oppo_Forecast |-> NaNCell, oppo_cout |-> NaNCell,
                            Oppo_Certainty |-> NaNCell ]
    /\ computed_df = opportunities_df
    /\ applied = <<>>
    /\ calculator = NoCalculator

InitComputed ==
    /\ opportunities_df \in OpportunityFrames
    /\ computed_df = opportunities_df
    /\ applied = <<>>
    /\ calculator = NoCalculator

\* df = computed_columns_processor.calculate_weighted_forecast(df)
CalculateWeightedForecast ==
    /\ ~Called("weighted_forecast")
    /\ computed_df' = calculate_weighted_forecast(computed_df)
    /\ applied' = Append(applied, "weighted_forecast")
    /\ UNCHANGED <<opportunities_df, calculator>>

\* df = computed_columns_processor.calculate_net_amount(df)
CalculateNetAmount ==
    /\ ~Called("net_amount")
    /\ computed_df' = calculate_net_amount(computed_df)
    /\ applied' = Append(applied, "net_amount")
    /\ UNCHANGED <<opportunities_df, calculator>>

\* df = computed_columns_processor.calculate_net_weighted_amount(df)
CalculateNetWeightedAmount ==
    /\ ~Called("net_weighted_amount")
    /\ computed_df' = calculate_net_weighted_amount(computed_df)
    /\ applied' = Append(applied, "net_weighted_amount")
    /\ UNCHANGED <<opportunities_df, calculator>>

\* df = computed_columns_processor.calculate_roi_metrics(df)
CalculateRoiMetrics ==
    /\ ~Called("roi_metrics")
    /\ computed_df' = calculate_roi_metrics(computed_df)
    /\ applied' = Append(applied, "roi_metrics")
    /\ UNCHANGED <<opportunities_df, calculator>>

\* ComputedColumnsCalculator().calculate_all on the same opportunity, its
\* numeric columns passed as they are; text cells are not numbers to it
CalculateAll ==
    /\ ~calculator.done
    /\ \A col \in DOMAIN opportunities_df : opportunities_df[col].k \in {"num", "na"}
    /\ calculator' = calculate_all([ forecast |-> opportunities_df["Oppo_Forecast"],
                                     certainty |-> opportunities_df["Oppo_Certainty"],
                                     cost |-> opportunities_df["oppo_cout"] ])
    /\ UNCHANGED <<opportunities_df, computed_df, applied>>

----------------------------------------------------------------------------
(* The business rules on companies and persons                             *)
(* (src/business_logic/business_rules.py)                                  *)

\* the atoms that str.title changes, from their lower-case form
TitlePairs ==
    { <<"acme", "Acme">>, <<"corp", "Corp">>, <<"labs", "Labs">>, <<"ann", "Ann">>,
      <<"lee", "Lee">> }

titleAtom(a) ==
    LET low == lowerAtom(a)
    IN  IF \E p \in TitlePairs : p[1] = low
        THEN (CHOOSE p \in TitlePairs : p[1] = low)[2]
        ELSE low

\* str.title: every word capitalised, the rest of it in lower case
title(t) == [i \in 1..Len(t) |-> titleAtom(t[i])]

\* Series.str.strip().str.title() and .str.strip().str.lower(): a missing
\* cell stays missing
str_strip_title(x) == IF isna(x) THEN x ELSE title(strip(x))
str_strip_lower(x) == IF isna(x) THEN x ELSE lower(strip(x))

\* str.contains(r'^https?://', case=False, na=False)
StartsWithHttp(website) ==
    /\ Len(website) > 0
    /\ lowerAtom(website[1]) \in {"http://", "https://"}

\* _clean_company_data (lines 278-296) on the one row; website_valid is
\* "True", "False" or missing
_clean_company_data(df) ==
    LET named == SetColumn(df, "Comp_Name", str_strip_title(df["Comp_Name"]))
    IN  IF "Comp_Website" \in DOMAIN named
        THEN LET filled == SetColumn(named, "Comp_Website",
                                     fillna(named["Comp_Website"], <<>>))
                 mask == filled["Comp_Website"] # <<>>
                             /\ filled["Comp_Website"] # <<"NULL">>
             IN  SetColumn(filled, "website_valid",
                           IF ~mask THEN "<NaN>"
                           ELSE IF StartsWithHttp(filled["Comp_Website"]) THEN "True"
                           ELSE "False")
        ELSE named

\* size_indicators of _categorize_companies, in lower case, in loop order
size_indicators ==
    << <<"Enterprise", <<"sa">>>>, <<"Enterprise", <<"corp">>>>,
       <<"Enterprise", <<"corporation">>>>, <<"Enterprise", <<"gmbh">>>>,
       <<"Enterprise", <<"ltd">>>>, <<"Enterprise", <<"inc">>>>,
       <<"SME", <<"sarl">>>>, <<"SME", <<"sas">>>>, <<"SME", <<"llc">>>>,
       <<"Startup", <<"startup">>>>, <<"Startup", <<"labs">>>>,
       <<"Startup", <<"technologies">>>> >>

\* _categorize_companies (lines 298-318): the last indicator found in the
\* name decides; the name atoms of the model hold no indicator inside them
_categorize_companies(df) ==
    LET name == df["Comp_Name"]
        hits == IF isna(name) THEN {}
                ELSE {i \in 1..Len(size_indicators) :
                         contains(lower(name), size_indicators[i][2])}
        category == IF hits = {} THEN "Unknown"
                    ELSE size_indicators[CHOOSE i \in hits : \A j \in hits : j <= i][1]
    IN  SetColumn(df, "company_category", category)

\* apply_business_rules_to_companies (lines 149-166): no copy is taken, the
\* frame handed in is the frame worked on and handed back
apply_business_rules_to_companies(df) == _categorize_companies(_clean_company_data(df))

\* _clean_person_data (lines 320-334)
_clean_person_data(df) ==
    LET first == SetColumn(df, "Pers_FirstName", str_strip_title(df["Pers_FirstName"]))
        last == SetColumn(first, "Pers_LastName", str_strip_title(first["Pers_LastName"]))
    IN  SetColumn(last, "Pers_EmailAddress", str_strip_lower(last["Pers_EmailAddress"]))

\* the first "." after position i, 0 when there is none
NextDot(t, i) ==
    IF \E j \in (i + 1)..Len(t) : t[j] = "."
    THEN CHOOSE j \in (i + 1)..Len(t) : t[j] = "." /\ \A m \in (i + 1)..(j - 1) : t[m] # "."
    ELSE 0

\* whether r'@([^.]+\.[^.]+)' matches with its "@" at position i
DomainAt(t, i) ==
    /\ t[i] = "@"
    /\ NextDot(t, i) > i + 1
    /\ NextDot(t, i) < Len(t)
    /\ t[NextDot(t, i) + 1] # "."

\* Series.str.extract(r'@([^.]+\.[^.]+)'): the group of the leftmost match
str_extract_domain(x) ==
    IF isna(x) THEN x
    ELSE LET starts == {i \in 1..Len(x) : DomainAt(x, i)}
         IN  IF starts = {} THEN NaN
             ELSE LET i == CHOOSE m \in starts : \A n \in starts : m <= n
                      dot == NextDot(x, i)
                      stop == IF NextDot(x, dot) = 0 THEN Len(x) ELSE NextDot(x, dot) - 1
                  IN  SubSeq(x, i + 1, stop)

\* _enhance_contact_data (lines 336-350)
_enhance_contact_data(df) ==
    LET domain == IF "Pers_EmailAddress" \in DOMAIN df
                  THEN SetColumn(df, "email_domain",
                                 str_extract_domain(df["Pers_EmailAddress"]))
                  ELSE df
        first == domain["Pers_FirstName"]
        last == domain["Pers_LastName"]
    IN  SetColumn(domain, "full_name",
                  IF isna(first) \/ isna(last) THEN NaN ELSE first \o <<" ">> \o last)

\* apply_business_rules_to_persons (lines 168-185), in place as well
apply_business_rules_to_persons(df) == _enhance_contact_data(_clean_person_data(df))

CompanyNames ==
    { <<"acme", " ", "corp">>, <<" ", "ACME", " ", "Labs", " ">>, <<"Acme">>, NaN }

CompanyWebsites ==
    { NaN, <<>>, <<"NULL">>, <<"http://", "a", ".", "com">>, <<"HTTP://", "a", ".", "com">>,
      <<"a", ".", "com">> }

CompanyRecords == [Comp_Name : CompanyNames, Comp_Website : CompanyWebsites]

PersonEmails ==
    { NaN, <<"ann", "@", "a", ".", "com">>, <<" ", "Ann", "@", "A", ".", "com", ".", "fr", " ">>,
      <<"ann", "@", "a">> }

PersonRecords ==
    [ Pers_FirstName : {<<"Ann">>, <<" ", "ann">>, NaN}, Pers_LastName : {<<"LEE">>, <<"Lee">>},
      Pers_EmailAddress : PersonEmails ]

NoFrame == [unassigned |-> TRUE]

RulesIdle ==
    /\ input_frames = [companies |-> NoFrame, persons |-> NoFrame]
    /\ enhanced_data = [companies |-> NoFrame, persons |-> NoFrame]
    /\ rules_pc = "idle"

InitRules ==
    /\ input_frames \in [companies : CompanyRecords, persons : PersonRecords]
    /\ enhanced_data = [companies |-> NoFrame, persons |-> NoFrame]
    /\ rules_pc = "companies"

\* test_business_rules, the companies: the engine works on the frame of
\* processed_data itself, so the caller's frame is the frame handed back
ApplyBusinessRulesToCompanies ==
    /\ rules_pc = "companies"
    /\ LET cleaned == apply_business_rules_to_companies(input_frames.companies)
       IN  /\ input_frames' = [input_frames EXCEPT !.companies = cleaned]
           /\ enhanced_data' = [enhanced_data EXCEPT !.companies = cleaned]
    /\ rules_pc' = "persons"

\* test_business_rules, the persons
ApplyBusinessRulesToPersons ==
    /\ rules_pc = "persons"
    /\ LET persons_df == apply_business_rules_to_persons(input_frames.persons)
       IN  /\ input_frames' = [input_frames EXCEPT !.persons = persons_df]
           /\ enhanced_data' = [enhanced_data EXCEPT !.persons = persons_df]
    /\ rules_pc' = "done"

----------------------------------------------------------------------------
(* Specifications: one per component, the other components idle *)

InitStageRun == InitStage /\ SiteIdle /\ AssocIdle /\ SocialIdle /\ RunIdle /\ ComputedIdle /\ RulesIdle
NextStage ==
    \/ ApplyPipelineMapping /\ UNCHANGED <<siteVars, assocVars, socialVars, runVars, computedVars, rulesVars>>
    \/ TransformDeals /\ UNCHANGED <<siteVars, assocVars, socialVars, runVars, computedVars, rulesVars>>
SpecStage == InitStageRun /\ [][NextStage]_vars

InitSiteRun == StageIdle /\ InitSite /\ AssocIdle /\ SocialIdle /\ RunIdle /\ ComputedIdle /\ RulesIdle
NextSite == ProcessSiteAggregation /\ UNCHANGED <<stageVars, assocVars, socialVars, runVars, computedVars, rulesVars>>
SpecSite == InitSiteRun /\ [][NextSite]_vars

InitAssocRun == StageIdle /\ SiteIdle /\ InitAssoc /\ SocialIdle /\ RunIdle /\ ComputedIdle /\ RulesIdle
NextAssoc ==
    \/ CreateCommunicationAssociations /\ UNCHANGED <<stageVars, siteVars, socialVars, runVars, computedVars, rulesVars>>
    \/ ProcessCommunicationsWithAssociations
          /\ UNCHANGED <<stageVars, siteVars, socialVars, runVars, computedVars, rulesVars>>
SpecAssoc == InitAssocRun /\ [][NextAssoc]_vars

InitSocialRun == StageIdle /\ SiteIdle /\ AssocIdle /\ InitSocial /\ RunIdle /\ ComputedIdle /\ RulesIdle
NextSocial ==
    ProcessSocialNetworksWithAssociations /\ UNCHANGED <<stageVars, siteVars, assocVars, runVars, computedVars, rulesVars>>
SpecSocial == InitSocialRun /\ [][NextSocial]_vars

InitPipelineRun == StageIdle /\ SiteIdle /\ AssocIdle /\ SocialIdle /\ InitRun /\ ComputedIdle /\ RulesIdle
RunStep ==
    \/ RunValidateCsv
    \/ RunExtractBronze
    \/ RunProcessDuckdb
    \/ RunBusinessTransformation
    \/ RunCommunicationAssociations
    \/ RunSocialNetworks
    \/ RunSiteAggregation
    \/ RunExport
NextRun == RunStep /\ UNCHANGED <<stageVars, siteVars, assocVars, socialVars, computedVars, rulesVars>>
SpecRun == InitPipelineRun /\ [][NextRun]_vars

InitComputedRun == StageIdle /\ SiteIdle /\ AssocIdle /\ SocialIdle /\ RunIdle /\ InitComputed /\ RulesIdle
ComputedStep ==
    \/ CalculateWeightedForecast
    \/ CalculateNetAmount
    \/ CalculateNetWeightedAmount
    \/ CalculateRoiMetrics
    \/ CalculateAll
NextComputed ==
    ComputedStep /\ UNCHANGED <<stageVars, siteVars, assocVars, socialVars, runVars, rulesVars>>
SpecComputed == InitComputedRun /\ [][NextComputed]_vars

InitRulesRun ==
    StageIdle /\ SiteIdle /\ AssocIdle /\ SocialIdle /\ RunIdle /\ ComputedIdle /\ InitRules
RulesStep ==
    \/ ApplyBusinessRulesToCompanies
    \/ ApplyBusinessRulesToPersons
NextRules ==
    RulesStep /\ UNCHANGED <<stageVars, siteVars, assocVars, socialVars, runVars, computedVars>>
SpecRules == InitRulesRun /\ [][NextRules]_vars

----------------------------------------------------------------------------
(* Properties of the site aggregation *)

\* the (base_name, domain) key of an input company
InputKey(company) ==
    <<_extract_base_company_name(company.Comp_Name), _clean_domain(company.Comp_Website)>>

InputIds == {companies_df[j].Comp_CompanyId : j \in 1..Len(companies_df)}

\* the ids of the input companies whose key, in keys, is keys[j]
IdsWithKey(keys, j) ==
    {companies_df[i].Comp_CompanyId : i \in {i \in DOMAIN keys : keys[i] = keys[j]}}

ParentRows(df) == {i \in 1..Len(df) : df[i].record_type = "Parent_Aggregator"}

CompanyRows(df) == {i \in 1..Len(df) : df[i].record_type # "Parent_Aggregator"}

RecordKey(record) == <<record.base_company_name, record.domain_clean>>

ChildrenOf(df, p) ==
    {df[i].company_id : i \in {i \in CompanyRows(df) : df[i].parent_company_id = df[p].company_id}}

\* C7: a key shared by at least two input companies gets exactly one
\* Parent_Aggregator record whose children are all and only the companies
\* with that key; a company with a unique key gets no parent record and
\* stays standalone; there is no other parent record.
Thm_C7_GroupsExactlySharedKeys ==
    site_runs > 0 =>
        LET df == site_aggregation_df
            keys == [j \in 1..Len(companies_df) |-> InputKey(companies_df[j])]
        IN  /\ \A j \in DOMAIN keys :
                  LET parents == {p \in ParentRows(df) : RecordKey(df[p]) = keys[j]}
                  IN  IF Cardinality(IdsWithKey(keys, j)) >= 2
                      THEN /\ Cardinality(parents) = 1
                           /\ \A p \in parents : ChildrenOf(df, p) = IdsWithKey(keys, j)
                      ELSE /\ parents = {}
                           /\ \E i \in CompanyRows(df) :
                                 /\ df[i].company_id = companies_df[j].Comp_CompanyId
                                 /\ df[i].parent_company_id = df[i].company_id
                                 /\ df[i].record_type = "Standalone"
                                 /\ \A p \in ParentRows(df) :
                                       df[i].company_id \notin ChildrenOf(df, p)
            /\ \A p \in ParentRows(df) : \E j \in DOMAIN keys : keys[j] = RecordKey(df[p])

Wit_C7_AcmeGroupBetaStandalone ==
    /\ site_runs > 0
    /\ Len(companies_df) = 3
    /\ companies_df[1].Comp_Name = <<"Acme", " ", "Grenoble">>
    /\ companies_df[2].Comp_Name = <<"Acme", " ", "Paris">>
    /\ companies_df[3].Comp_Name = <<"Beta", " ", "Corp">>
    /\ companies_df[3].Comp_CompanyId = 3
    /\ Len(site_aggregation_df) = 4
    /\ site_aggregation_df[4].record_type = "Parent_Aggregator"
    /\ site_aggregation_df[4].base_company_name = <<"Acme">>
    /\ site_aggregation_df[4].company_id = 4
    /\ ChildrenOf(site_aggregation_df, 4) = {1, 2}
    /\ site_aggregation_df[3].record_type = "Standalone"

\* C8: the k-th multi-site group in ascending (base_name, domain) order gets
\* the parent id max(existing company id) + k; no parent id equals an
\* existing company id and no two groups share a parent id.
Thm_C8_ParentIdsInKeyOrder ==
    site_runs > 0 =>
        LET df == site_aggregation_df
            parents == ParentRows(df)
        IN  /\ \A p \in parents :
                  df[p].company_id =
                      MaxOf(InputIds) + 1
                          + Cardinality({q \in parents : KeyLess(RecordKey(df[q]), RecordKey(df[p]))})
            /\ \A p \in parents : df[p].company_id \notin InputIds
            /\ \A p, q \in parents : p # q => df[p].company_id # df[q].company_id

Wit_C8_SecondSeenGroupSortsFirst ==
    /\ site_runs > 0
    /\ Len(companies_df) = 4
    /\ companies_df[1].Comp_Name = <<"Beta", " ", "Corp">>
    /\ companies_df[1].Comp_CompanyId = 9
    /\ \E p, q \in ParentRows(site_aggregation_df) :
          /\ site_aggregation_df[p].base_company_name = <<"Acme">>
          /\ site_aggregation_df[p].company_id = 10
          /\ site_aggregation_df[q].base_company_name = <<"Beta">>
          /\ site_aggregation_df[q].company_id = 11

----------------------------------------------------------------------------
(* Properties of the communication associations *)

NotFoundStatus(target) ==
    CASE target = "deal" -> "NO_DEAL_FOUND"
      [] target = "company" -> "NO_COMPANY_FOUND"
      [] target = "contact" -> "NO_CONTACT_FOUND"

\* whether the id the communication references for a target is present and
\* exists in the target's dataset
Present(target) ==
    CASE target = "deal" ->
            communication.Oppo_OpportunityId # NoId
                /\ communication.Oppo_OpportunityId \in lookups.deals
      [] target = "company" ->
            communication.Comp_CompanyId # NoId
                /\ communication.Comp_CompanyId \in lookups.companies
      [] target = "contact" ->
            communication.Pers_PersonId # NoId
                /\ communication.Pers_PersonId \in lookups.persons

StatusIs(target, found, missing) ==
    /\ comm_associations.done =>
          (CASE target = "deal" -> comm_associations.deal_association_status
             [] target = "company" -> comm_associations.company_association_status
             [] target = "contact" -> comm_associations.contact_association_status)
              = (IF Present(target) THEN found ELSE missing)
    /\ (comm_result.done /\ target # "deal") =>
          (CASE target = "company" -> comm_result.company_association_status
             [] target = "contact" -> comm_result.contact_association_status)
              = (IF Present(target) THEN found ELSE missing)

----------------------------------------------------------------------------
(* Properties of the site and parent records *)

\* the rows of the result built for the companies of the parent record p
MemberRows(df, p) ==
    {i \in CompanyRows(df) : RecordKey(df[i]) = RecordKey(df[p])}

UniqueKeyRows(df) ==
    {i \in CompanyRows(df) :
        \A j \in CompanyRows(df) : RecordKey(df[j]) = RecordKey(df[i]) => j = i}

Thm_C15_SiteOrderWithinGroup ==
    site_runs > 0 =>
        LET df == site_aggregation_df
        IN  \A p \in ParentRows(df) :
                LET members == MemberRows(df, p)
                IN  /\ df[p].site_order = 0
                    /\ Cardinality(members) >= 2
                    /\ \A i \in members :
                          /\ df[i].parent_company_id = df[p].company_id
                          /\ df[i].site_order =
                                1 + Cardinality({j \in members : j < i})
                          /\ companies_df[i].Comp_CompanyId = df[i].company_id

Wit_C15_InterleavedGroups ==
    /\ site_runs > 0
    /\ Len(companies_df) = 4
    /\ companies_df[1].Comp_Name = <<"Acme", " ", "Paris">>
    /\ companies_df[2].Comp_Name = <<"Beta", " ", "Corp">>
    /\ companies_df[3].Comp_Name = <<"Acme", " ", "Grenoble">>
    /\ companies_df[4].Comp_Name = <<"Beta", " ", "Corp">>
    /\ site_aggregation_df[1].site_order = 1
    /\ site_aggregation_df[2].site_order = 1
    /\ site_aggregation_df[3].site_order = 2
    /\ site_aggregation_df[4].site_order = 2
    /\ site_aggregation_df[5].site_order = 0
    /\ site_aggregation_df[6].site_order = 0

\* the sum of contact_count over the rows of a result
RECURSIVE ContactCountOver(_, _)
ContactCountOver(df, rows) ==
    IF rows = {} THEN 0
    ELSE LET i == CHOOSE i \in rows : TRUE
         IN  df[i].contact_count + ContactCountOver(df, rows \ {i})

\* C16: for every multi-site group, the sum of contact_count over the
\* group's member company records equals the contact_count of the group's
\* Parent_Aggregator record; a member's contact_count is the number of
\* contacts of that company.
Thm_C16_ContactCountSum ==
    site_runs > 0 =>
        LET df == site_aggregation_df
        IN  /\ \A i \in CompanyRows(df) :
                  df[i].contact_count =
                      Cardinality({c \in 1..Len(contacts_df) :
                          contacts_df[c].Comp_CompanyId = df[i].company_id})
            /\ \A p \in ParentRows(df) :
                  df[p].contact_count = ContactCountOver(df, MemberRows(df, p))

Wit_C16_OnePlusTwoContacts ==
    /\ site_runs > 0
    /\ ParentRows(site_aggregation_df) # {}
    /\ \E p \in ParentRows(site_aggregation_df) :
          /\ MemberRows(site_aggregation_df, p) = {1, 2}
          /\ site_aggregation_df[1].contact_count = 1
          /\ site_aggregation_df[2].contact_count = 2
          /\ site_aggregation_df[p].contact_count = 3

\* the contacts of the members of the parent record p, in processing order:
\* member companies in row order, the contacts of each in contacts_df order
RECURSIVE MemberContacts(_, _, _)
MemberContacts(df, p, i) ==
    IF i > Len(companies_df) THEN <<>>
    ELSE (IF i \in MemberRows(df, p)
          THEN SelectSeq(contacts_df, LAMBDA c : c.Comp_CompanyId = df[i].company_id)
          ELSE <<>>) \o MemberContacts(df, p, i + 1)

ContactName(c) == strip(PyStr(c.Pers_FirstName) \o <<" ">> \o PyStr(c.Pers_LastName))

ContactEmail(c) == IF isna(c.Pers_EmailAddress) THEN <<>> ELSE c.Pers_EmailAddress

ContactPair(c) == <<ContactName(c), ContactEmail(c)>>

\* the entries of a ', '-joined list
Entries(t) == IF t = <<>> THEN <<>> ELSE SplitOn(t, ",")

\* C17: a Parent_Aggregator's contact list is the union of its members'
\* contacts deduplicated by (name, email) pair in first-seen order, so
\* contacts sharing a name but not an email both remain: the parent lists
\* one name per distinct (name, email) pair of its members' contacts.
Cex_C17_DedupByNameEmailPair ==
    site_runs > 0 =>
        LET df == site_aggregation_df
        IN  \A p \in ParentRows(df) :
                LET all == MemberContacts(df, p, 1)
                    pairs == dict_fromkeys([c \in 1..Len(all) |-> ContactPair(all[c])])
                IN  /\ Len(Entries(df[p].all_contact_names)) = Len(pairs)
                    /\ \A k \in 1..Len(pairs) :
                          strip(Entries(df[p].all_contact_names)[k]) = pairs[k][1]

\* C18: a group's primary contact is the first contact of the
\* first-processed member company: primary_contact_name and
\* primary_contact_email of the Parent_Aggregator are the name and the
\* email of that one contact.
Cex_C18_PrimaryContactIsOneContact ==
    site_runs > 0 =>
        LET df == site_aggregation_df
        IN  \A p \in ParentRows(df) :
                LET first_member == CHOOSE i \in MemberRows(df, p) :
                                        \A j \in MemberRows(df, p) : i <= j
                    own == SelectSeq(contacts_df,
                               LAMBDA c : c.Comp_CompanyId = df[first_member].company_id)
                IN  own # <<>> =>
                        /\ df[p].primary_contact_name = ContactName(own[1])
                        /\ df[p].primary_contact_email = ContactEmail(own[1])

\* C19: the final token of a company name is removed from base_name exactly
\* when it matches the location/entity-suffix vocabulary, and then the
\* extracted location is that final token; otherwise base_name is the full
\* name and the location is "HQ".
Cex_C19_NameDecompositionConsistent ==
    site_runs > 0 =>
        \A i \in CompanyRows(site_aggregation_df) :
            LET record == site_aggregation_df[i]
                name == strip(PyStr(record.company_name))
                words == split(name)
            IN  \/ /\ record.base_company_name = name
                   /\ record.location_extracted = <<"HQ">>
                \/ /\ Len(words) > 1
                   /\ record.base_company_name = join(<<" ">>, SubSeq(words, 1, Len(words) - 1))
                   /\ record.location_extracted = words[Len(words)]

----------------------------------------------------------------------------
(* Properties of the social link property rules *)

PropertySlots ==
    { "linkedin_bio", "linkedin_company_page", "website", "twitterhandle",
      "facebook_company_page", "hs_facebookid" }

MatchesSomeRule(link) ==
    ContainsAny(link, LinkedInKeys \cup WebsiteKeys \cup TwitterKeys \cup FacebookKeys)

\* C20: the social-link property rule table is total with first match wins:
\* for every link text and every related_table_id (company, person or
\* unknown) the target is one defined property slot, and a link matched by
\* no rule gets the generic "website" slot.
Cex_C20_PropertyRulesTotal ==
    (social_result.done /\ social_result.kept) =>
        /\ social_result.hubspot_property_target \in PropertySlots
        /\ ~MatchesSomeRule(lower(PyStr(social_network.sone_networklink))) =>
              social_result.hubspot_property_target = "website"

----------------------------------------------------------------------------
(* Properties of the pipeline run *)

Finished == run.pc = "done"

\* position of a step in the steps executed so far, 0 when it has not run
RanAt(stage) ==
    IF \E i \in 1..Len(run.executed) : run.executed[i] = stage
    THEN CHOOSE i \in 1..Len(run.executed) : run.executed[i] = stage
    ELSE 0

Failed(stage) == stage \in run.errors

OutputStages == {"transform", "communications", "social", "site"}

SomeColumnMissing == \E name \in DatasetNames : processed_data[name].missing # {}

\* the stages that read a column which is missing from its dataset
StagesReadingMissing == {stage \in OutputStages : Raises(stage, processed_data)}

\* C12: a missing required column in one dataset fails only
\* the stage that owns the dataset: the stage yields an empty result, and
\* the run still executes its remaining stages and its export and does not
\* end as a failed run.
Cex_C12_ShapeErrorNeverFatal ==
    (Finished /\ run_faults = "none" /\ SomeColumnMissing /\ RanAt("transform") > 0) =>
        /\ run.result = "True"
        /\ RanAt("export") > 0
        /\ \A stage \in StagesReadingMissing : run[OutputOf(stage)] = "empty"

\* C13 (as claimed): deal stage mapping and site aggregation both complete
\* before association resolution starts, association resolution consumes the
\* transformed deals, and the export starts only after association
\* resolution has finished.
Cex_C13_SiteBeforeAssociations ==
    RanAt("communications") > 0 =>
        /\ RanAt("transform") > 0 /\ RanAt("transform") < RanAt("communications")
        /\ RanAt("site") > 0 /\ RanAt("site") < RanAt("communications")
        /\ run.deals_given_to_associations = run.transformed_deals_df
        /\ RanAt("export") > 0 => RanAt("export") > RanAt("communications")

\* C13 (amended): the stages execute in a fixed order: deal stage mapping
\* completes before association resolution starts, association resolution
\* consumes the already transformed deals, site aggregation runs after
\* association resolution (communications, then social networks), and the
\* export starts only after association resolution and site aggregation have
\* finished.
Thm_C13_StageOrder ==
    /\ RanAt("communications") > 0 =>
          /\ RanAt("transform") > 0 /\ RanAt("transform") < RanAt("communications")
          /\ run.deals_given_to_associations = "data"
          /\ run.deals_given_to_associations = run.transformed_deals_df
          /\ RanAt("site") = 0 \/ RanAt("site") > RanAt("communications")
    /\ RanAt("social") > 0 => RanAt("social") = RanAt("communications") + 1
    /\ RanAt("site") > 0 => RanAt("site") = RanAt("social") + 1
    /\ RanAt("export") > 0 =>
          /\ RanAt("export") = RanAt("site") + 1
          /\ RanAt("export") = Len(run.executed)
    /\ \A i, j \in 1..Len(run.executed) : i # j => run.executed[i] # run.executed[j]

Wit_C13_AllStagesRan ==
    /\ Finished
    /\ run.result = "True"
    /\ run.executed = << "validate", "extract", "process", "transform", "communications",
                         "social", "site", "export" >>
    /\ run.transformed_deals_df = "data"
    /\ run.comm_associations_df = "data"
    /\ run.site_aggregation_df = "data"

----------------------------------------------------------------------------
(* Properties of the missing-value markers and of the confidence           *)

\* a cell the mappers are said to read as empty: missing, or one of the
\* texts NaN, None, NULL with any surrounding blanks
MissingMarker(cell) ==
    isna(cell) \/ strip(cell) \in {<<"NaN">>, <<"None">>, <<"NULL">>}

RowFields == {"Oppo_Status", "Oppo_Stage", "Oppo_Type"}

\* C21: a row whose status, stage or deal type is missing or is the text
\* NaN, None or NULL (blanks around it allowed) gets the same pipeline and
\* the same stage as the same row with that field empty, from both mappers.
Cex_C21_MarkersReadAsEmpty ==
    \A f \in RowFields :
        MissingMarker(opportunity[f]) =>
            LET emptied == [opportunity EXCEPT ![f] = <<>>]
                h == apply_pipeline_mapping(emptied)
                e == transform_deals_to_hubspot_format(emptied)
            IN  /\ hubspot.done =>
                    /\ hubspot.hubspot_pipeline = h.hubspot_pipeline
                    /\ hubspot.hubspot_stage = h.hubspot_stage
                /\ deal.done =>
                    /\ deal.pipeline = e.pipeline
                    /\ deal.deal_stage = e.deal_stage

\* the stage texts PipelineMapper knows (both tables have the same keys)
KnownStageTexts == {studies_stage_mapping[i][1] : i \in 1..Len(studies_stage_mapping)}

\* C22 (as claimed): when a non-terminal deal's stage text matches no level
\* and the level-1 default is used, the mapping confidence is strictly lower
\* than for the same row with a stage text that matches.
Cex_C22_MissLowersConfidence ==
    ( /\ hubspot.done
      /\ hubspot.hubspot_stage \notin {"closedwon", "closedlost"}
      /\ CleanCell(opportunity.Oppo_Stage) \notin KnownStageTexts ) =>
        \A g \in KnownStageTexts :
            hubspot.mapping_confidence
                < apply_pipeline_mapping([opportunity EXCEPT !.Oppo_Stage = g]).mapping_confidence

\* the confidence in tenths as the rule states it: deductions for a missing
\* status, stage and type, then the boost for Won or Lost, then the floor
Deduction(cell, tenths) == IF CleanCell(cell) = <<>> THEN tenths ELSE 0

StatedConfidence(row) ==
    LET deducted == 10 - Deduction(row.Oppo_Status, 2) - Deduction(row.Oppo_Stage, 2)
                       - Deduction(row.Oppo_Type, 1)
        boosted == IF StatusOf(row) \in {<<"Won">>, <<"Lost">>}
                   THEN (IF deducted + 2 > 10 THEN 10 ELSE deducted + 2)
                   ELSE deducted
    IN  IF boosted < 1 THEN 1 ELSE boosted

\* C23: for every status, stage and type the mapping confidence is 1.0 minus
\* 0.2 for a missing status, minus 0.2 for a missing stage, minus 0.1 for a
\* missing type, then plus 0.2 capped at 1.0 for status Won or Lost, then
\* floored at 0.1, the deductions before the boost.
Thm_C23_ConfidenceFormula ==
    hubspot.done => hubspot.mapping_confidence = StatedConfidence(opportunity)

\* a Won deal without stage text: 1.0 - 0.2, then + 0.2 gives 1.0 (the boost
\* taken first would be capped at 1.0 and leave 0.8)
Wit_C23_WonWithoutStage ==
    /\ hubspot.done
    /\ StatusOf(opportunity) = <<"Won">>
    /\ opportunity.Oppo_Stage = NaN
    /\ TypeOf(opportunity) = <<"FTK">>
    /\ hubspot.mapping_confidence = 10

\* the labels each mapper emits for an active deal of each pipeline: the
\* values of its active-stage table and its level-1 default
StudiesVocabulary == Values(studies_stage_mapping) \cup {"01-Identification"}
SalesVocabulary == Values(sales_stage_mapping) \cup {"Identified"}
StudiesActiveLabels == Values(studies_active_mapping) \cup {"01-Identification"}
SalesActiveLabels == Values(sales_active_mapping) \cup {"Identified"}

\* the row is mapped by the active-stage lookup of _transform_deal_stage
\* (status In Progress or empty) or held by Sleap
ActiveStatus(row) == StatusOf(row) \in {<<"In", " ", "Progress">>, <<>>, <<"Sleap">>}

ActiveLabelsOf(pipeline) ==
    IF pipeline = STUDIES THEN Range(StudiesLevels) ELSE Range(SalesLevels)

\* C26 (as claimed): the deal_stage emitted by transform_deals_to_hubspot_format
\* is a closed stage or one of the five active labels of the pipeline emitted
\* for the same row, whatever the status text is: a Studies row never carries
\* a Sales label and a Sales row never carries a Studies label.
Cex_C26_StageOfOwnPipeline ==
    deal.done => deal.deal_stage \in ClosedStages \cup ActiveLabelsOf(deal.pipeline)

----------------------------------------------------------------------------
(* Properties of the dataset keys of the run *)

\* the datasets a stage works on
SourcesOf(stage) ==
    CASE stage = "communications" -> {"communications", "companies", "persons"}
      [] stage = "social" -> {"social_networks", "companies", "persons"}
      [] stage = "site" -> {"companies", "persons"}

FileOf(stage) ==
    CASE stage = "communications" -> "communications_associations_success.csv"
      [] stage = "social" -> "social_networks_associations_success.csv"
      [] stage = "site" -> "companies_site_aggregation_success.csv"

\* C27 (as claimed): an association or aggregation stage whose source
\* datasets were extracted non-empty is executed on them and its result
\* reaches the export; it is never skipped because it looks a dataset up
\* under a key the earlier steps did not store.
Cex_C27_StagesFindTheirDatasets ==
    \A stage \in {"communications", "social", "site"} :
        ( /\ Finished
          /\ run.result = "True"
          /\ SourcesOf(stage) \subseteq bronze_data
          /\ ~Raises(stage, processed_data)
          /\ stage = "communications" => run.transformed_deals_df = "data" ) =>
            /\ run[OutputOf(stage)] = "data"
            /\ FileOf(stage) \in run.exported

----------------------------------------------------------------------------
(* Properties of the Twitter and Facebook rules *)

\* the link as _determine_hubspot_property reads it
LinkOf(row) == lower(PyStr(row.sone_networklink))

\* C29 (as claimed): every rule of the property table can fire: a link that
\* contains twitter.com or x.com and no LinkedIn marker goes to twitterhandle,
\* and a link that contains facebook.com and no LinkedIn marker goes to
\* facebook_company_page for a company and to hs_facebookid otherwise.
Cex_C29_TwitterFacebookRulesFire ==
    ( /\ social_result.done
      /\ social_result.kept
      /\ ~ContainsAny(LinkOf(social_network), LinkedInKeys) ) =>
        /\ ContainsAny(LinkOf(social_network), TwitterKeys) =>
              social_result.hubspot_property_target = "twitterhandle"
        /\ ( /\ ContainsAny(LinkOf(social_network), FacebookKeys)
             /\ ~ContainsAny(LinkOf(social_network), TwitterKeys) ) =>
              social_result.hubspot_property_target =
                  IF social_network.Related_TableID = CompanyTable
                  THEN "facebook_company_page" ELSE "hs_facebookid"

----------------------------------------------------------------------------
(* Properties of the computed fields *)

\* the number a cell stands for once the functions have coerced it
Val(cell) == IF cell.k \in {"num", "numstr"} THEN cell.v ELSE 0

Forecast == Val(opportunities_df["Oppo_Forecast"])
Cost == Val(opportunities_df["oppo_cout"])
Certainty == Val(opportunities_df["Oppo_Certainty"])

\* forecast, cost and certainty are numbers, the certainty within 0..100
NumericOpportunity ==
    /\ \A col \in DOMAIN opportunities_df : opportunities_df[col].k = "num"
    /\ Certainty >= 0
    /\ Certainty <= 100

\* C25 (as claimed): with numeric forecast and cost and a certainty given as
\* a percentage in 0..100, weighted_forecast = forecast * certainty / 100,
\* net_amount = forecast - cost and net_weighted_amount = net_amount *
\* certainty / 100, from ComputedColumnsProcessor and from
\* ComputedColumnsCalculator alike (products in hundredths).
Cex_C25_ComputedFormulas ==
    NumericOpportunity =>
        /\ Called("weighted_forecast") =>
              computed_df["weighted_forecast"] = Forecast * Certainty
        /\ Called("net_amount") => computed_df["net_amount"] = Forecast - Cost
        /\ Called("net_weighted_amount") =>
              computed_df["net_weighted_amount"] = (Forecast - Cost) * Certainty
        /\ calculator.done =>
              /\ calculator.weighted_forecast = Number(Forecast * Certainty)
              /\ calculator.net_amount = Number(Forecast - Cost)
              /\ calculator.net_weighted_amount = Number((Forecast - Cost) * Certainty)

\* C30: the computed-field functions are order-independent: whatever the
\* order of the calls so far, every column computed holds the value the
\* opportunity's forecast, cost and certainty fix, and net_weighted_amount
\* computed on a frame without net_amount is (forecast - cost) * certainty
\* / 100, as after calculate_net_amount.
Thm_C30_OrderIndependent ==
    /\ Called("weighted_forecast") =>
          /\ "weighted_forecast" \in DOMAIN computed_df
          /\ computed_df["weighted_forecast"] = Forecast * Certainty
    /\ (Called("net_amount") \/ Called("net_weighted_amount") \/ Called("roi_metrics")) =>
          /\ "net_amount" \in DOMAIN computed_df
          /\ computed_df["net_amount"] = Forecast - Cost
          /\ Val(computed_df["Oppo_Forecast"]) = Forecast
          /\ Val(computed_df["oppo_cout"]) = Cost
    /\ Called("net_weighted_amount") =>
          /\ "net_weighted_amount" \in DOMAIN computed_df
          /\ computed_df["net_weighted_amount"] = (Forecast - Cost) * Certainty
    /\ Called("roi_metrics") =>
          /\ computed_df["margin_percentage"] =
                IF Forecast > 0 THEN Ratio((Forecast - Cost) * 100, Forecast)
                ELSE Ratio(0, 1)
          /\ computed_df["roi_percentage"] =
                IF Cost > 0 THEN Ratio((Forecast - Cost) * 100, Cost) ELSE Ratio(0, 1)

\* net_weighted_amount computed first, on a frame without net_amount:
\* (1000 - 200) * 80 / 100 = 640
Wit_C30_NetWeightedFirst ==
    /\ applied = <<"net_weighted_amount", "weighted_forecast">>
    /\ opportunities_df["Oppo_Forecast"] = Number(1000)
    /\ opportunities_df["oppo_cout"] = Number(200)
    /\ opportunities_df["Oppo_Certainty"] = Number(80)
    /\ computed_df["net_weighted_amount"] = 64000
    /\ computed_df["weighted_forecast"] = 80000

----------------------------------------------------------------------------
(* Properties of the frames handed to a stage *)

\* C28 (as claimed): every stage is copy-on-transform: after a stage
\* returns, the dataset objects it received hold the same rows, columns and
\* values as before the call; checked on the business-rule cleaning of
\* companies and persons.
Cex_C28_InputFramesKept == [][input_frames' = input_frames]_vars

=============================================================================
